---- MODULE Spec2Model ----
(***************************************************************************)
(* The three decision engines of badjacent/transient:                      *)
(*   - NormalizerAgent   (src/src/refmaster/normalizer_agent.py)            *)
(*   - OMSAgent          (src/src/oms/oms_agent.py)                         *)
(*   - MarketNormalizer  (src/src/pricing/normalizer.py)                    *)
(* Strings are sequences of one-character strings, so that the regular     *)
(* expressions, upper-casing and substring tests of the code are computed, *)
(* not assumed.  Confidences and thresholds are hundredths (0.85 is 85).   *)
(***************************************************************************)
EXTENDS Integers, Sequences, FiniteSets, TLC

VARIABLES
    equities,      \* NormalizerAgent.equities: the security directory
    thresholds,    \* NormalizerAgent.thresholds
    normIn,        \* the normalize call in hand: [text, top_k], or NoCall
    normLocals,    \* its locals input_str, extracted, scored (sorted), or NoCall
    normOut,       \* what it returned: [raised, results], or NoCall
    omsArgs,       \* the arguments the OMSAgent was constructed with
    omsCfg,        \* the OMSAgent instance: thresholds, valid_counterparties,
                   \* ref_currency_map, settlement_days
    omsIn,         \* the run call in hand: [trade_json, market], market being
                   \* what get_price_snapshot does when called; or NoCall
    omsOut,        \* what run returned, with the checks it executed; or NoCall
    priceCfg,      \* the MarketNormalizer instance: tolerances, refmaster
    cache,         \* its _cache: (ticker, as_of_date) -> result of a fetch
    now,           \* the clock, in half days
    marketData,    \* the data of the Market Price Source: "base" or "revised"
    priceIn,       \* the enrich_marks call in hand: [marks, now, market]
    priceOut,      \* what it returned or that it raised, the calls it made
    pricePrev,     \* the call before it on the same marks, or NoCall
    fetchIn,       \* the fetch_market_price call in hand: [ticker, as_of_date,
                   \* outage, before], before being the cache at the call
    fetchOut,      \* what it returned and the calls it made to the source
    fetchPrev,     \* the call before it with the same arguments, or NoCall
    pool,          \* the thread pool of an enrich_marks with max_workers > 1:
                   \* its records, the source's outages, each worker's
                   \* position and every result delivered; or NoCall
    cmpIn,         \* the compare_mark_to_market call in hand: [internal_mark,
                   \* market_price, ticker], or NoCall
    cmpOut,        \* the dict it returned
    deskCfg,       \* the retry_cfg of the DeskAgentOrchestrator
    desk           \* the run_scenario in hand: the step it is at, the attempts
                   \* made on it, the calls made to each step function, the
                   \* trace, each step's result and how the run ended

normVars == <<equities, thresholds, normIn, normLocals, normOut>>
omsVars == <<omsArgs, omsCfg, omsIn, omsOut>>
fetchVars == <<fetchIn, fetchOut, fetchPrev>>
compareVars == <<cmpIn, cmpOut>>
deskVars == <<deskCfg, desk>>
priceVars == <<priceCfg, cache, now, marketData, priceIn, priceOut, pricePrev,
               fetchIn, fetchOut, fetchPrev, pool, cmpIn, cmpOut>>
vars == <<equities, thresholds, normIn, normLocals, normOut, omsArgs, omsCfg, omsIn, omsOut,
          priceCfg, cache, now, marketData, priceIn, priceOut, pricePrev,
          fetchIn, fetchOut, fetchPrev, pool, cmpIn, cmpOut, deskCfg, desk>>

NoCall == [none |-> TRUE]

-----------------------------------------------------------------------------
(* Characters and strings                                                  *)

LowerAlpha == <<"a","b","c","d","e","f","g","h","i","j","k","l","m",
                "n","o","p","q","r","s","t","u","v","w","x","y","z">>
UpperAlpha == <<"A","B","C","D","E","F","G","H","I","J","K","L","M",
                "N","O","P","Q","R","S","T","U","V","W","X","Y","Z">>
Letters == {UpperAlpha[i] : i \in 1..26}
Digits == {"0","1","2","3","4","5","6","7","8","9"}
Whitespace == {" "}

\* str.upper() on the lower-case letters
UpperOf ==
    [c \in {LowerAlpha[i] : i \in 1..26} |-> UpperAlpha[CHOOSE i \in 1..26 : LowerAlpha[i] = c]]

\* str.upper() on one character
UpCh(c) == IF c \in DOMAIN UpperOf THEN UpperOf[c] ELSE c

\* str.upper()
Upper(s) == [i \in 1..Len(s) |-> UpCh(s[i])]

\* str.strip()
Strip(s) ==
    LET keep == {i \in 1..Len(s) : s[i] \notin Whitespace}
    IN  IF keep = {} THEN <<>>
        ELSE LET lo == CHOOSE i \in keep : \A j \in keep : i <= j
                 hi == CHOOSE i \in keep : \A j \in keep : i >= j
             IN  SubSeq(s, lo, hi)

\* `needle in hay` for Python strings
Contains(hay, needle) ==
    \E i \in 1..(Len(hay) - Len(needle) + 1) :
        SubSeq(hay, i, i + Len(needle) - 1) = needle

\* str.zfill(n)
RECURSIVE ZFill(_, _)
ZFill(s, n) == IF Len(s) >= n THEN s ELSE ZFill(<<"0">> \o s, n)

\* \w of the re module, on upper-cased text
IsWordCh(c) == c \in Letters \/ c \in Digits \/ c = "_"

\* The maximal runs of word characters of t, as <<first, last>>: a pattern
\* \b(...)\b whose body matches word characters only matches exactly such a run.
WordRuns(t) ==
    LET starts == {i \in 1..Len(t) : IsWordCh(t[i]) /\ (i = 1 \/ ~IsWordCh(t[i - 1]))}
        ends == {j \in 1..Len(t) : IsWordCh(t[j]) /\ (j = Len(t) \/ ~IsWordCh(t[j + 1]))}
    IN  {<<i, CHOOSE j \in ends : j >= i /\ \A k \in ends : k >= i => j <= k>> : i \in starts}

\* [A-Z]{2}[A-Z0-9]{9}[0-9]
IsinShape(w) ==
    /\ Len(w) = 12
    /\ w[1] \in Letters /\ w[2] \in Letters
    /\ \A k \in 3..11 : w[k] \in Letters \cup Digits
    /\ w[12] \in Digits

\* [A-Z0-9]{9}
CusipShape(w) == Len(w) = 9 /\ \A k \in 1..9 : w[k] \in Letters \cup Digits

\* 0{0,6}[0-9]{4,10}
CikShape(w) ==
    /\ \A k \in 1..Len(w) : w[k] \in Digits
    /\ \E z \in 0..6 :
        /\ z <= Len(w)
        /\ \A k \in 1..z : w[k] = "0"
        /\ Len(w) - z >= 4 /\ Len(w) - z <= 10

\* [A-Z]{1,5}: the optional (\.[A-Z]) suffix of the pattern is dropped by the
\* split(".")[0] that follows, and never decides whether the run matches
SymbolShape(w) == Len(w) >= 1 /\ Len(w) <= 5 /\ \A k \in 1..Len(w) : w[k] \in Letters

\* the four word-shaped patterns of _extract_identifiers
HasShape(kind, w) ==
    CASE kind = "isin" -> IsinShape(w)
      [] kind = "cusip" -> CusipShape(w)
      [] kind = "cik" -> CikShape(w)
      [] kind = "symbol" -> SymbolShape(w)

\* re.search(...).group(1) for a word-shaped pattern: the leftmost run with the
\* shape, <<>> (None) when there is none
FirstWord(t, runs, kind) ==
    LET hits == {r \in runs : HasShape(kind, SubSeq(t, r[1], r[2]))}
    IN  IF hits = {} THEN <<>>
        ELSE LET r == CHOOSE x \in hits : \A y \in hits : x[1] <= y[1]
             IN  SubSeq(t, r[1], r[2])

-----------------------------------------------------------------------------
(* Identifier Normalizer: src/src/refmaster/normalizer_agent.py            *)

S_NASDAQ == <<"N","A","S","D","A","Q">>
S_NYSE == <<"N","Y","S","E">>
S_AMEX == <<"A","M","E","X">>
S_OTC == <<"O","T","C">>
S_US == <<"U","S">>

\* exchange_keywords, in the order the loop tries them
ExchangeKeywords == <<S_NASDAQ, S_NYSE, S_AMEX, S_OTC>>

\* NormalizerAgent._extract_identifiers; None is the empty string (the code
\* only tests the fields for truth)
ExtractIdentifiers(input_str) ==
    LET text == Upper(input_str)
        runs == WordRuns(text)
        isin == FirstWord(text, runs, "isin")
        cusip_match == FirstWord(text, runs, "cusip")
        cik_match == FirstWord(text, runs, "cik")
        symbol_match == FirstWord(text, runs, "symbol")
        exs == {i \in 1..Len(ExchangeKeywords) : Contains(text, ExchangeKeywords[i])}
    IN  [isin |-> isin,
         cusip |-> IF cusip_match # <<>> /\ isin = <<>> THEN cusip_match ELSE <<>>,
         cik |-> IF cik_match # <<>> THEN ZFill(cik_match, 10) ELSE <<>>,
         symbol |-> symbol_match,
         exchange |-> IF exs = {} THEN <<>>
                      ELSE ExchangeKeywords[CHOOSE i \in exs : \A j \in exs : i <= j],
         country |-> IF Contains(text, <<" ">> \o S_US) THEN S_US ELSE <<>>]

Max(a, b) == IF a >= b THEN a ELSE b

\* Mutation of Score: an ISIN match does not return at once, the symbol and
\* exchange rules still add their reasons
Score_NoShortCircuit(eq, th, extracted, input_str) ==
    LET isinx == extracted.isin # <<>> /\ eq.isin # <<>> /\ Upper(eq.isin) = extracted.isin
        part == eq.symbol # <<>> /\ Contains(Upper(input_str), Upper(eq.symbol))
        exch == /\ extracted.exchange # <<>> /\ eq.exchange # <<>>
                /\ Contains(Upper(eq.exchange), extracted.exchange)
        r0 == IF isinx THEN <<"isin_exact">> ELSE <<>>
        r1 == IF part THEN Append(r0, "symbol_in_text") ELSE r0
        r2 == IF exch THEN Append(r1, "exchange_only") ELSE r1
        s0 == IF isinx THEN th.exact ELSE 0
        s1 == IF part THEN Max(s0, 70) ELSE s0
        s2 == IF exch THEN Max(s1, 30) ELSE s1
    IN  [conf |-> s2, reasons |-> r2]

\* Mutation of Score: the substring rule assigns 0.7 instead of taking the max
Score_SubstringAssigns(eq, th, extracted, input_str) ==
    IF extracted.isin # <<>> /\ eq.isin # <<>> /\ Upper(eq.isin) = extracted.isin
    THEN [conf |-> th.exact, reasons |-> <<"isin_exact">>]
    ELSE IF extracted.cusip # <<>> /\ eq.cusip # <<>> /\ Upper(eq.cusip) = extracted.cusip
    THEN [conf |-> th.high, reasons |-> <<"cusip_exact">>]
    ELSE IF extracted.cik # <<>> /\ eq.cik # <<>> /\ Upper(eq.cik) = extracted.cik
    THEN [conf |-> th.high, reasons |-> <<"cik_exact">>]
    ELSE
    LET exch == /\ extracted.exchange # <<>> /\ eq.exchange # <<>>
                /\ Contains(Upper(eq.exchange), extracted.exchange)
        symx == /\ extracted.symbol # <<>> /\ eq.symbol # <<>>
                /\ Upper(eq.symbol) = extracted.symbol
        part == eq.symbol # <<>> /\ Contains(Upper(input_str), Upper(eq.symbol))
        s == IF part THEN 70 ELSE IF symx THEN 90 ELSE 0
    IN  [conf |-> IF exch THEN Max(s, 30) ELSE s,
         reasons |-> IF part THEN <<"symbol_in_text">> ELSE <<"exchange_only">>]

\* NormalizerAgent._score: (confidence, reasons)
Score(eq, th, extracted, input_str) ==
    IF extracted.isin # <<>> /\ eq.isin # <<>> /\ Upper(eq.isin) = extracted.isin
    THEN [conf |-> th.exact, reasons |-> <<"isin_exact">>]
    ELSE IF extracted.cusip # <<>> /\ eq.cusip # <<>> /\ Upper(eq.cusip) = extracted.cusip
    THEN [conf |-> th.high, reasons |-> <<"cusip_exact">>]
    ELSE IF extracted.cik # <<>> /\ eq.cik # <<>> /\ Upper(eq.cik) = extracted.cik
    THEN [conf |-> th.high, reasons |-> <<"cik_exact">>]
    ELSE
    LET exch == /\ extracted.exchange # <<>> /\ eq.exchange # <<>>
                /\ Contains(Upper(eq.exchange), extracted.exchange)
        ctry == /\ extracted.country # <<>> /\ eq.country # <<>>
                /\ extracted.country = Upper(eq.country)
        symx == /\ extracted.symbol # <<>> /\ eq.symbol # <<>>
                /\ Upper(eq.symbol) = extracted.symbol
        s1 == IF symx THEN Max(0, 90) ELSE 0
        r1 == IF symx THEN <<"symbol_exact">> ELSE <<>>
        s2 == IF symx /\ exch THEN Max(s1, 95) ELSE s1
        r2 == IF symx /\ exch THEN Append(r1, "exchange_match") ELSE r1
        s3 == IF symx /\ ctry THEN Max(s2, 92) ELSE s2
        r3 == IF symx /\ ctry THEN Append(r2, "country_match") ELSE r2
        part == eq.symbol # <<>> /\ Contains(Upper(input_str), Upper(eq.symbol))
        s4 == IF part THEN Max(s3, 70) ELSE s3
        r4 == IF part THEN Append(r3, "symbol_in_text") ELSE r3
        s5 == IF exch THEN Max(s4, 30) ELSE s4
        r5 == IF exch THEN Append(r4, "exchange_only") ELSE r4
    IN  [conf |-> s5, reasons |-> r5]

\* list.sort(key=confidence, reverse=True): stable, so equal confidences keep
\* their order in the list
SortByConfidence(scored) ==
    LET n == Len(scored)
        pos(i) == 1 + Cardinality({j \in 1..n :
                        \/ scored[j].confidence > scored[i].confidence
                        \/ (scored[j].confidence = scored[i].confidence /\ j < i)})
    IN  [p \in 1..n |-> scored[CHOOSE i \in 1..n : pos(i) = p]]

\* Mutation of FlagAmbiguous: the test of the top confidence against
\* ambiguous_high is missing
FlagAmbiguous_NoHighCheck(scored, th) ==
    IF Len(scored) > 1 /\ scored[2].confidence >= th.ambiguous_low
    THEN [i \in 1..Len(scored) |->
            IF scored[i].confidence >= th.ambiguous_low
            THEN [scored[i] EXCEPT !.ambiguous = TRUE]
            ELSE scored[i]]
    ELSE scored

\* the ambiguity detection of normalize, on the sorted list
FlagAmbiguous(scored, th) ==
    IF /\ Len(scored) > 1
       /\ scored[1].confidence <= th.ambiguous_high
       /\ scored[2].confidence >= th.ambiguous_low
    THEN [i \in 1..Len(scored) |->
            IF scored[i].confidence >= th.ambiguous_low
            THEN [scored[i] EXCEPT !.ambiguous = TRUE]
            ELSE scored[i]]
    ELSE scored

\* scored[:top_k] for top_k >= 0
Take(s, k) == SubSeq(s, 1, IF k < Len(s) THEN k ELSE Len(s))

RECURSIVE SelectIdx(_, _, _)
\* the indices i..n of S, ascending, as a sequence
SelectIdx(S, i, n) ==
    IF i > n THEN <<>>
    ELSE IF i \in S THEN <<i>> \o SelectIdx(S, i + 1, n)
    ELSE SelectIdx(S, i + 1, n)

\* The candidates of normalize before sorting: one NormalizationResult per
\* security with conf > 0, in directory order
ScoredCandidates(eqs, th, input_str) ==
    LET extracted == ExtractIdentifiers(input_str)
        sc == [i \in 1..Len(eqs) |-> Score(eqs[i], th, extracted, input_str)]
        hit == SelectIdx({i \in 1..Len(eqs) : sc[i].conf > 0}, 1, Len(eqs))
    IN  [k \in 1..Len(hit) |->
            [equity |-> eqs[hit[k]], confidence |-> sc[hit[k]].conf,
             reasons |-> sc[hit[k]].reasons, ambiguous |-> FALSE]]

\* Mutation of ValidConfidence: the le=1.0 bound is missing
ValidConfidence_NoUpperBound(c) == c >= 0

\* NormalizationResult: confidence: float = Field(ge=0.0, le=1.0)
ValidConfidence(c) == c >= 0 /\ c <= 100

\* The locals of normalize after the sort: input_str, extracted, and scored
\* before the reject test, the ambiguity detection and the cut to top_k
NormalizeLocals(eqs, th, description_or_id) ==
    IF description_or_id = <<>>
    THEN [input_str |-> <<>>, extracted |-> ExtractIdentifiers(<<>>), scored |-> <<>>]
    ELSE LET input_str == Strip(description_or_id)
         IN  [input_str |-> input_str,
              extracted |-> ExtractIdentifiers(input_str),
              scored |-> SortByConfidence(ScoredCandidates(eqs, th, input_str))]

\* Mutation of NormalizeResult: the list is cut to top_k before the ambiguity
\* detection
NormalizeResult_TruncateFirst(locals, th, description_or_id, top_k) ==
    IF description_or_id = <<>> THEN [raised |-> FALSE, results |-> <<>>]
    ELSE IF \E k \in 1..Len(locals.scored) : ~ValidConfidence(locals.scored[k].confidence)
    THEN [raised |-> TRUE, results |-> <<>>]
    ELSE IF locals.scored = <<>> \/ locals.scored[1].confidence < th.reject
    THEN [raised |-> FALSE, results |-> <<>>]
    ELSE [raised |-> FALSE, results |-> FlagAmbiguous(Take(locals.scored, top_k), th)]

\* Mutation of NormalizeResult: every result below reject is dropped
NormalizeResult_FilterBelowReject(locals, th, description_or_id, top_k) ==
    IF description_or_id = <<>> THEN [raised |-> FALSE, results |-> <<>>]
    ELSE IF \E k \in 1..Len(locals.scored) : ~ValidConfidence(locals.scored[k].confidence)
    THEN [raised |-> TRUE, results |-> <<>>]
    ELSE IF locals.scored = <<>> \/ locals.scored[1].confidence < th.reject
    THEN [raised |-> FALSE, results |-> <<>>]
    ELSE [raised |-> FALSE,
          results |-> Take(FlagAmbiguous(SelectSeq(locals.scored,
                               LAMBDA r : r.confidence >= th.reject), th), top_k)]

\* Mutation of NormalizeResult: a best confidence equal to reject is rejected
NormalizeResult_RejectAtThreshold(locals, th, description_or_id, top_k) ==
    IF description_or_id = <<>> THEN [raised |-> FALSE, results |-> <<>>]
    ELSE IF \E k \in 1..Len(locals.scored) : ~ValidConfidence(locals.scored[k].confidence)
    THEN [raised |-> TRUE, results |-> <<>>]
    ELSE IF locals.scored = <<>> \/ locals.scored[1].confidence <= th.reject
    THEN [raised |-> FALSE, results |-> <<>>]
    ELSE [raised |-> FALSE, results |-> Take(FlagAmbiguous(locals.scored, th), top_k)]

\* NormalizerAgent.normalize from its locals on: raised is the pydantic
\* ValidationError of a NormalizationResult whose confidence is outside [0, 1]
\* (it is raised in the scoring loop, before the sort)
NormalizeResult(locals, th, description_or_id, top_k) ==
    IF description_or_id = <<>> THEN [raised |-> FALSE, results |-> <<>>]
    ELSE IF \E k \in 1..Len(locals.scored) : ~ValidConfidence(locals.scored[k].confidence)
    THEN [raised |-> TRUE, results |-> <<>>]
    ELSE IF locals.scored = <<>> \/ locals.scored[1].confidence < th.reject
    THEN [raised |-> FALSE, results |-> <<>>]
    ELSE [raised |-> FALSE, results |-> Take(FlagAmbiguous(locals.scored, th), top_k)]

\* NormalizerAgent.normalize
Normalize(eqs, th, description_or_id, top_k) ==
    NormalizeResult(NormalizeLocals(eqs, th, description_or_id), th,
                    description_or_id, top_k)

-----------------------------------------------------------------------------
(* The normalizer's inputs                                                 *)

S_AAPL == <<"A","A","P","L">>
S_MSFT == <<"M","S","F","T">>
S_ABC == <<"A","B","C">>
S_ABCD == <<"A","B","C","D">>
S_APC == <<"A","P","C">>
IsinAAPL == <<"U","S","0","3","7","8","3","3","1","0","0","5">>
IsinMSFT == <<"U","S","5","9","4","9","1","8","1","0","4","5">>
CusipAAPL == <<"0","3","7","8","3","3","1","0","0">>
CusipMSFT == <<"5","9","4","9","1","8","1","0","4">>
CikAAPL == <<"0","0","0","0","3","2","0","1","9","3">>
CikMSFT == <<"0","0","0","0","7","8","9","0","1","9">>

\* RefMasterEquity records (symbol, exchange and currency are upper-cased and
\* trimmed by the schema's validator)
Equity(symbol, isin, cusip, cik, exchange, country) ==
    [symbol |-> Upper(Strip(symbol)), isin |-> isin, cusip |-> cusip, cik |-> cik,
     currency |-> <<"U","S","D">>, exchange |-> Upper(Strip(exchange)),
     country |-> country]

EqAAPL == Equity(S_AAPL, IsinAAPL, CusipAAPL, CikAAPL, S_NASDAQ, S_US)
EqMSFT == Equity(S_MSFT, IsinMSFT, CusipMSFT, CikMSFT, S_NASDAQ, <<>>)
EqABC == Equity(S_ABC, <<>>, <<>>, <<>>, S_NYSE, <<>>)
EqABCD == Equity(S_ABCD, <<>>, <<>>, <<>>, S_NASDAQ, <<>>)
\* a second listing of the AAPL security: same ISIN, its own symbol
EqAPC == Equity(S_APC, IsinAAPL, <<>>, <<>>, S_OTC, <<>>)

\* The directories a NormalizerAgent is constructed with
Directories ==
    {<<EqAAPL, EqMSFT, EqABC, EqABCD>>,
     <<EqMSFT, EqABCD, EqAPC, EqAAPL>>}

\* NormalizerAgent.__init__: the defaults
DefaultThresholds ==
    [exact |-> 100, high |-> 90, ambiguous_low |-> 60, ambiguous_high |-> 85,
     reject |-> 40]

\* The thresholds arguments a caller constructs the agent with (None first)
ThresholdOverrides ==
    {<<>>,
     [reject |-> 30],
     [reject |-> 95],
     [exact |-> 80, high |-> 50],
     [ambiguous_high |-> 95, ambiguous_low |-> 30],
     [ambiguous_low |-> 90],
     [exact |-> 150],
     [high |-> -10, reject |-> 0]}

\* NormalizerAgent.__init__: self.thresholds.update(thresholds)
MergeThresholds(override) ==
    [k \in DOMAIN DefaultThresholds |->
        IF k \in DOMAIN override THEN override[k] ELSE DefaultThresholds[k]]

\* The words the input texts are made of
Vocabulary ==
    {S_AAPL,
     <<"m","s","f","t">>,
     <<"A","B","C","D","9">>,
     S_US,
     S_NASDAQ,
     IsinAAPL,
     CusipMSFT,
     <<"3","2","0","1","9","3">>}

MaxTokens == 2
MaxTopK == 2

RECURSIVE TextsOf(_)
\* the texts of exactly n words, joined by one space
TextsOf(n) ==
    IF n = 1 THEN Vocabulary
    ELSE {t \o <<" ">> \o w : t \in TextsOf(n - 1), w \in Vocabulary}

\* The description_or_id arguments: empty, blank, and 1..MaxTokens words
Texts == {<<>>, <<" ">>} \cup UNION {TextsOf(n) : n \in 1..MaxTokens}

-----------------------------------------------------------------------------
(* The normalizer as a state machine: a caller holding one agent           *)

NormInit ==
    /\ equities \in Directories
    /\ thresholds \in {MergeThresholds(o) : o \in ThresholdOverrides}
    /\ normIn = NoCall
    /\ normLocals = NoCall
    /\ normOut = NoCall
    /\ omsArgs = NoCall /\ omsCfg = NoCall /\ omsIn = NoCall /\ omsOut = NoCall
    /\ priceCfg = NoCall /\ cache = <<>> /\ now = 0 /\ marketData = "base"
    /\ priceIn = NoCall /\ priceOut = NoCall /\ pricePrev = NoCall
    /\ fetchIn = NoCall /\ fetchOut = NoCall /\ fetchPrev = NoCall /\ pool = NoCall
    /\ cmpIn = NoCall /\ cmpOut = NoCall
    /\ deskCfg = NoCall /\ desk = NoCall

\* agent.normalize(text, top_k)
NormalizeCall(text, top_k) ==
    /\ normIn = NoCall
    /\ normIn' = [text |-> text, top_k |-> top_k]
    /\ normLocals' = NormalizeLocals(equities, thresholds, text)
    /\ normOut' = NormalizeResult(normLocals', thresholds, text, top_k)
    /\ UNCHANGED <<equities, thresholds, omsVars, deskVars, priceVars>>

\* the caller takes the result; the agent keeps no state of the call
NormalizeReturn ==
    /\ normIn # NoCall
    /\ normIn' = NoCall
    /\ normLocals' = NoCall
    /\ normOut' = NoCall
    /\ UNCHANGED <<equities, thresholds, omsVars, deskVars, priceVars>>

NormNext ==
    \/ \E text \in Texts, top_k \in 1..MaxTopK : NormalizeCall(text, top_k)
    \/ NormalizeReturn

SpecNorm == NormInit /\ [][NormNext]_vars

-----------------------------------------------------------------------------
(* Trade Validation Engine: src/src/oms/oms_agent.py, src/src/oms/schema.py *)

\* A value of the loosely typed trade record: an absent key, None, a string
\* (a sequence of characters), a number, or a string that is the ISO form of
\* the calendar day `day` (day 0 is a Monday).
Absent == [t |-> "absent"]
None == [t |-> "none"]
Str(v) == [t |-> "str", v |-> v]
Num(v) == [t |-> "num", v |-> v]
IsoDate(day) == [t |-> "isodate", day |-> day]

\* _issue
Issue(issue_type, severity, message, field) ==
    [type |-> issue_type, severity |-> severity, message |-> message, field |-> field]

\* required, in OMSAgent._check_required; also the field order of Trade
RequiredFields ==
    <<"ticker", "quantity", "price", "currency", "counterparty", "trade_dt", "settle_dt">>

\* the empty dict
EmptyDict == [f \in {RequiredFields[i] : i \in 1..Len(RequiredFields)} |-> Absent]

\* Mutation of CoerceTradeDict: a value that is neither a dict nor a string
\* is taken for an empty dict without an issue
CoerceTradeDict_SilentOther(trade_json) ==
    CASE trade_json.kind = "badjson" ->
            [dict |-> EmptyDict, strkeys |-> TRUE,
             issues |-> <<Issue("schema_validation", "ERROR", "Invalid JSON", "trade")>>]
      [] trade_json.kind = "other" ->
            [dict |-> EmptyDict, strkeys |-> TRUE, issues |-> <<>>]
      [] trade_json.kind = "badkeys" ->
            [dict |-> EmptyDict, strkeys |-> FALSE, issues |-> <<>>]
      [] trade_json.kind \in {"dict", "json"} ->
            [dict |-> trade_json.fields, strkeys |-> TRUE, issues |-> <<>>]

\* OMSAgent._coerce_trade_dict: (dict, issues); strkeys says whether every
\* key of the dict is a string, the dict {1: "x"} of kind "badkeys" has none
\* of the required keys
CoerceTradeDict(trade_json) ==
    CASE trade_json.kind = "badjson" ->
            [dict |-> EmptyDict, strkeys |-> TRUE,
             issues |-> <<Issue("schema_validation", "ERROR", "Invalid JSON", "trade")>>]
      [] trade_json.kind = "other" ->
            [dict |-> EmptyDict, strkeys |-> TRUE,
             issues |-> <<Issue("schema_validation", "ERROR",
                                "trade_json must be dict or JSON string", "trade")>>]
      [] trade_json.kind = "badkeys" ->
            [dict |-> EmptyDict, strkeys |-> FALSE, issues |-> <<>>]
      [] trade_json.kind \in {"dict", "json"} ->
            [dict |-> trade_json.fields, strkeys |-> TRUE, issues |-> <<>>]

RECURSIVE FlatMap(_, _, _)
\* the concatenation of Op-lists f[1] \o ... \o f[n], f a sequence of sequences
FlatMap(f, i, n) == IF i > n THEN <<>> ELSE f[i] \o FlatMap(f, i + 1, n)

\* OMSAgent._check_required
CheckRequired(trade_dict) ==
    LET miss(field) ==
            \/ trade_dict[field].t \in {"absent", "none"}
            \/ (trade_dict[field].t = "str" /\ trade_dict[field].v = <<>>)
    IN  FlatMap([i \in 1..Len(RequiredFields) |->
                    IF miss(RequiredFields[i])
                    THEN <<Issue("missing_field", "ERROR", "Missing", RequiredFields[i])>>
                    ELSE <<>>],
                1, Len(RequiredFields))

\* Trade's validation of one field: [ok, value] or [ok = FALSE, msg].
\* ticker, currency: the "before" validator _upper, then the str type, then
\* (currency) _currency_format; quantity, price: the float type, then
\* _positive; counterparty: the str type; the dates: the str type, then
\* _validate_dates.
ValidateField(field, x) ==
    IF x.t = "absent" THEN [ok |-> FALSE, msg |-> "Field required"]
    ELSE IF field \in {"ticker", "currency", "counterparty"}
    THEN IF x.t # "str" THEN [ok |-> FALSE, msg |-> "Input should be a valid string"]
         ELSE IF field = "counterparty" THEN [ok |-> TRUE, value |-> x.v]
         ELSE LET u == Upper(Strip(x.v))
              IN  IF field = "currency" /\ Len(u) # 3
                  THEN [ok |-> FALSE, msg |-> "currency must be 3-letter ISO"]
                  ELSE [ok |-> TRUE, value |-> u]
    ELSE IF field \in {"quantity", "price"}
    THEN IF x.t # "num" THEN [ok |-> FALSE, msg |-> "Input should be a valid number"]
         ELSE IF x.v <= 0 THEN [ok |-> FALSE, msg |-> "must be positive"]
         ELSE [ok |-> TRUE, value |-> x.v]
    ELSE \* trade_dt, settle_dt
         IF x.t = "isodate" THEN [ok |-> TRUE, value |-> x.day]
         ELSE IF x.t = "str" THEN [ok |-> FALSE, msg |-> "invalid date"]
         ELSE [ok |-> FALSE, msg |-> "Input should be a valid string"]

\* OMSAgent._parse_trade with the except clauses of run: the Trade, or the
\* issues of OMSAgent._validation_issues, one per field in error
ParseTrade(trade_dict) ==
    LET n == Len(RequiredFields)
        v == [i \in 1..n |-> ValidateField(RequiredFields[i], trade_dict[RequiredFields[i]])]
    IN  IF \A i \in 1..n : v[i].ok
        THEN [ok |-> TRUE,
              trade |-> [f \in DOMAIN trade_dict |->
                            v[CHOOSE i \in 1..n : RequiredFields[i] = f].value],
              issues |-> <<>>]
        ELSE [ok |-> FALSE,
              issues |-> FlatMap([i \in 1..n |->
                            IF v[i].ok THEN <<>>
                            ELSE <<Issue("schema_validation", "ERROR", v[i].msg,
                                         RequiredFields[i])>>],
                        1, n)]

\* the try statement of run around _parse_trade: Trade(**trade_dict) raises
\* TypeError for a key that is no string, which `except Exception` turns
\* into one issue
ParseCoerced(coerced) ==
    IF coerced.strkeys THEN ParseTrade(coerced.dict)
    ELSE [ok |-> FALSE,
          issues |-> <<Issue("schema_validation", "ERROR", "Invalid trade input", "trade")>>]

\* Mutation of IdentifierIssues: the low-confidence test is an elif of the
\* ambiguity test
IdentifierIssues_ElifLowConfidence(r) ==
    IF r.raised
    THEN <<Issue("identifier_mismatch", "ERROR", "Normalization failed", "ticker")>>
    ELSE IF r.results = <<>>
    THEN <<Issue("identifier_mismatch", "ERROR", "Ticker not recognized", "ticker")>>
    ELSE IF r.results[1].ambiguous
    THEN <<Issue("identifier_mismatch", "WARNING", "Ticker ambiguous", "ticker")>>
    ELSE IF r.results[1].confidence < 90
    THEN <<Issue("identifier_mismatch", "WARNING", "Low-confidence match", "ticker")>>
    ELSE <<>>

\* OMSAgent._check_identifier, from what normalize did
IdentifierIssues(r) ==
    IF r.raised
    THEN <<Issue("identifier_mismatch", "ERROR", "Normalization failed", "ticker")>>
    ELSE IF r.results = <<>>
    THEN <<Issue("identifier_mismatch", "ERROR", "Ticker not recognized", "ticker")>>
    ELSE (IF r.results[1].ambiguous
          THEN <<Issue("identifier_mismatch", "WARNING", "Ticker ambiguous", "ticker")>>
          ELSE <<>>)
         \o (IF r.results[1].confidence < 90
             THEN <<Issue("identifier_mismatch", "WARNING", "Low-confidence match", "ticker")>>
             ELSE <<>>)

\* OMSAgent._check_identifier
CheckIdentifier(trade, eqs, th) == IdentifierIssues(Normalize(eqs, th, trade.ticker, 3))

S_USD == <<"U","S","D">>

\* OMSAgent._check_currency
CheckCurrency(trade, cfg) ==
    LET ref_ccy == IF trade.ticker \in DOMAIN cfg.ref_currency_map
                   THEN cfg.ref_currency_map[trade.ticker] ELSE S_USD
    IN  IF trade.currency # ref_ccy
        THEN <<Issue("currency_mismatch", "WARNING", "Currency vs ref", "currency")>>
        ELSE <<>>

Abs(x) == IF x < 0 THEN -x ELSE x

\* |a - b| / b > pct / 100, for b > 0, without the division
DeviatesMoreThan(a, b, pct) == 100 * Abs(a - b) > pct * b

\* Mutation of CheckPrice: after a failure the source is called a second time
CheckPrice_RetryOnce(trade, cfg, market) ==
    LET snap == IF ~market.ok /\ "then" \in DOMAIN market
                THEN [ok |-> TRUE, price |-> market.then] ELSE market
    IN  IF ~snap.ok
        THEN <<Issue("price_tolerance", "WARNING", "Market data unavailable", "price")>>
        ELSE IF snap.price # 0 /\ DeviatesMoreThan(trade.price, snap.price, cfg.thresholds.error)
        THEN <<Issue("price_tolerance", "ERROR", "Price deviates from market", "price")>>
        ELSE IF snap.price # 0 /\ DeviatesMoreThan(trade.price, snap.price, cfg.thresholds.warning)
        THEN <<Issue("price_tolerance", "WARNING", "Price deviates from market", "price")>>
        ELSE <<>>

\* OMSAgent._check_price; market is what get_price_snapshot does on the one
\* call of line 235: it raises, or returns a snapshot with a price
CheckPrice(trade, cfg, market) ==
    IF ~market.ok
    THEN <<Issue("price_tolerance", "WARNING", "Market data unavailable", "price")>>
    ELSE IF market.price # 0 /\ DeviatesMoreThan(trade.price, market.price, cfg.thresholds.error)
    THEN <<Issue("price_tolerance", "ERROR", "Price deviates from market", "price")>>
    ELSE IF market.price # 0 /\ DeviatesMoreThan(trade.price, market.price, cfg.thresholds.warning)
    THEN <<Issue("price_tolerance", "WARNING", "Price deviates from market", "price")>>
    ELSE <<>>

\* OMSAgent._check_counterparty
CheckCounterparty(trade, cfg) ==
    IF /\ trade.counterparty # <<>>
       /\ Upper(Strip(trade.counterparty)) \notin cfg.valid_counterparties
    THEN <<Issue("counterparty", "WARNING", "Counterparty not in approved list",
                 "counterparty")>>
    ELSE <<>>

\* date.weekday(): 0 is Monday
Weekday(day) == day % 7

\* OMSAgent._check_settlement
CheckSettlement(trade, cfg) ==
    LET delta_days == trade.settle_dt - trade.trade_dt
    IN  (IF trade.settle_dt < trade.trade_dt
         THEN <<Issue("settlement_date", "ERROR", "Settlement before trade date", "settle_dt")>>
         ELSE <<>>)
        \o (IF Weekday(trade.settle_dt) >= 5
            THEN <<Issue("settlement_date", "ERROR", "Settlement on weekend", "settle_dt")>>
            ELSE <<>>)
        \o (IF delta_days < cfg.settlement_days
            THEN <<Issue("settlement_date", "ERROR", "Settlement earlier than expected",
                         "settle_dt")>>
            ELSE IF delta_days > cfg.settlement_days + 1
            THEN <<Issue("settlement_date", "WARNING", "Non-standard settlement interval",
                         "settle_dt")>>
            ELSE <<>>)

\* Mutation of Status: a WARNING is looked for before an ERROR
Status_WarningFirst(issues) ==
    IF \E i \in 1..Len(issues) : issues[i].severity = "WARNING" THEN "WARNING"
    ELSE IF \E i \in 1..Len(issues) : issues[i].severity = "ERROR" THEN "ERROR"
    ELSE "OK"

\* OMSAgent._status
Status(issues) ==
    IF \E i \in 1..Len(issues) : issues[i].severity = "ERROR" THEN "ERROR"
    ELSE IF \E i \in 1..Len(issues) : issues[i].severity = "WARNING" THEN "WARNING"
    ELSE "OK"

\* OMSAgent._explain: deterministic in the status and the issues
Explain(status, issues) ==
    IF issues = <<>> THEN <<"All checks passed.">>
    ELSE <<status>> \o [i \in 1..Len(issues) |->
                           <<issues[i].severity, issues[i].type, issues[i].field,
                             issues[i].message>>]

\* the five checks of run that take the parsed Trade, in the order of the list
TradeChecks == <<"identifier", "currency", "price", "counterparty", "settlement">>

\* the result dict of run, and in `ran` the checks that were executed
Report(issues, ran) ==
    [status |-> Status(issues),
     issues |-> issues,
     explanation |-> Explain(Status(issues), issues),
     ran |-> ran]

\* the `if trade:` block of run
RunTradeChecks(trade, cfg, eqs, th, market) ==
    CheckIdentifier(trade, eqs, th)
    \o CheckCurrency(trade, cfg)
    \o CheckPrice(trade, cfg, market)
    \o CheckCounterparty(trade, cfg)
    \o CheckSettlement(trade, cfg)

\* OMSAgent.run after _coerce_trade_dict
RunCoerced(cfg, eqs, th, market, coerced, parsed) ==
    IF parsed.ok
    THEN Report(CheckRequired(coerced.dict) \o coerced.issues \o parsed.issues
                    \o RunTradeChecks(parsed.trade, cfg, eqs, th, market),
                <<"required", "schema">> \o TradeChecks)
    ELSE Report(CheckRequired(coerced.dict) \o coerced.issues \o parsed.issues,
                <<"required", "schema">>)

\* OMSAgent.run
Run(cfg, eqs, th, trade_json, market) ==
    RunCoerced(cfg, eqs, th, market, CoerceTradeDict(trade_json),
               ParseCoerced(CoerceTradeDict(trade_json)))

\* OMSAgent.__init__, with no OMS_* environment variable set: each argument
\* falls back to its default when it is None or otherwise falsy
OMSAgentInit(args) ==
    [thresholds |-> [k \in {"warning", "error"} |->
                        IF k \in DOMAIN args.thresholds THEN args.thresholds[k]
                        ELSE IF k = "warning" THEN 2 ELSE 5],
     valid_counterparties |->
        IF args.valid_counterparties # {} THEN args.valid_counterparties
        ELSE {<<"M","S">>, <<"G","S">>, <<"J","P","M">>, <<"B","A","M","L">>,
              <<"B","A","R","C">>, <<"C","I","T","I">>},
     ref_currency_map |-> args.ref_currency_map,
     settlement_days |->
        IF args.settlement_days.t = "num" /\ args.settlement_days.v # 0
        THEN args.settlement_days.v ELSE 2]

S_EUR == <<"E","U","R">>

\* Constructor arguments: the defaults, settlement_days 0 and 1, a custom
\* lower-case counterparty set with a reference currency for AAPL, and
\* price thresholds with warning above error
DefaultArgs ==
    [thresholds |-> <<>>, valid_counterparties |-> {}, ref_currency_map |-> <<>>,
     settlement_days |-> None]

ConstructorArgs ==
    { DefaultArgs,
      [DefaultArgs EXCEPT !.settlement_days = Num(0)],
      [DefaultArgs EXCEPT !.settlement_days = Num(1)],
      [DefaultArgs EXCEPT !.valid_counterparties = {<<"m","s">>},
                          !.ref_currency_map = [t \in {S_AAPL} |-> S_EUR]],
      [DefaultArgs EXCEPT !.thresholds = [warning |-> 5, error |-> 2]] }

\* The trade every input is a variation of: AAPL bought from MS on a
\* Wednesday (day 2), settling on the Friday (day 4)
BaseTrade ==
    [ticker |-> Str(S_AAPL), quantity |-> Num(10), price |-> Num(100),
     currency |-> Str(S_USD), counterparty |-> Str(<<"M","S">>),
     trade_dt |-> IsoDate(2), settle_dt |-> IsoDate(4)]

\* The other values a field takes
FieldVariants ==
    [ticker |-> {Absent, Str(<<>>), Str(<<" ","a","a","p","l"," ">>), Str(S_US),
                 Str(S_ABC), Num(7)},
     quantity |-> {Absent, None, Num(-1), Str(<<"x">>)},
     price |-> {Absent, Num(0), Num(102), Num(103), Num(105), Num(106)},
     currency |-> {Absent, Str(<<>>), Str(<<"u","s","d">>), Str(S_EUR), Str(S_US)},
     counterparty |-> {Absent, Str(<<>>), Str(<<"m","s">>), Str(<<"X","X">>)},
     trade_dt |-> {Absent, Str(<<"b","a","d">>), IsoDate(3)},
     settle_dt |-> {Absent, Str(<<"b","a","d">>), IsoDate(1), IsoDate(2), IsoDate(3),
                    IsoDate(5), IsoDate(7)}]

\* how many fields of an input differ from BaseTrade
MaxEdits == 2

FieldValues(f) == FieldVariants[f] \cup {BaseTrade[f]}

TradeDicts ==
    {d \in [ticker : FieldValues("ticker"), quantity : FieldValues("quantity"),
            price : FieldValues("price"), currency : FieldValues("currency"),
            counterparty : FieldValues("counterparty"), trade_dt : FieldValues("trade_dt"),
            settle_dt : FieldValues("settle_dt")] :
        Cardinality({f \in DOMAIN BaseTrade : d[f] # BaseTrade[f]}) <= MaxEdits}

\* What run is given: a dict, the JSON text of a dict, text that is not JSON,
\* a value that is neither a dict nor a string, or the dict {1: "x"}
TradeInputs ==
    {[kind |-> k, fields |-> d] : k \in {"dict", "json"}, d \in TradeDicts}
    \cup {[kind |-> "badjson"], [kind |-> "other"], [kind |-> "badkeys"]}

\* What get_price_snapshot does when called: it raises, or returns a price;
\* or it raises and would return a price (then) if it were called again
MarketOutcomes ==
    {[ok |-> FALSE], [ok |-> TRUE, price |-> 0], [ok |-> TRUE, price |-> 100],
     [ok |-> FALSE, then |-> 100]}

OMSInit ==
    /\ equities = <<EqAAPL, EqMSFT, EqABC, EqABCD>>
    /\ thresholds = DefaultThresholds
    /\ normIn = NoCall /\ normLocals = NoCall /\ normOut = NoCall
    /\ omsArgs \in ConstructorArgs
    /\ omsCfg = OMSAgentInit(omsArgs)
    /\ omsIn = NoCall
    /\ omsOut = NoCall
    /\ priceCfg = NoCall /\ cache = <<>> /\ now = 0 /\ marketData = "base"
    /\ priceIn = NoCall /\ priceOut = NoCall /\ pricePrev = NoCall
    /\ fetchIn = NoCall /\ fetchOut = NoCall /\ fetchPrev = NoCall /\ pool = NoCall
    /\ cmpIn = NoCall /\ cmpOut = NoCall
    /\ deskCfg = NoCall /\ desk = NoCall

\* agent.run(trade_json)
OMSRun(trade_json, market) ==
    /\ omsIn = NoCall
    /\ omsIn' = [trade_json |-> trade_json, market |-> market]
    /\ omsOut' = Run(omsCfg, equities, thresholds, trade_json, market)
    /\ UNCHANGED <<normVars, deskVars, omsArgs, omsCfg, priceVars>>

\* the caller takes the report; the agent keeps no state between runs
OMSReturn ==
    /\ omsIn # NoCall
    /\ omsIn' = NoCall
    /\ omsOut' = NoCall
    /\ UNCHANGED <<normVars, deskVars, omsArgs, omsCfg, priceVars>>

OMSNext ==
    \/ (omsIn = NoCall /\ \E trade_json \in TradeInputs, market \in MarketOutcomes :
                            OMSRun(trade_json, market))
    \/ OMSReturn

SpecOMS == OMSInit /\ [][OMSNext]_vars

-----------------------------------------------------------------------------
(* The agent over a NormalizerAgent of the caller's: OMSAgent(normalizer=...)
   with the default arguments otherwise, run on trades that differ in the
   ticker *)

\* thresholds of the NormalizerAgent handed to the constructor
IdentThresholds ==
    {<<>>, [ambiguous_high |-> 95, ambiguous_low |-> 30], [reject |-> 95],
     [exact |-> 150]}

\* tickers: a symbol of the directory, a symbol that contains another one,
\* texts that contain one or two symbols, an unknown one, an ISIN, none
IdentTickers ==
    {S_AAPL, S_ABCD, <<"A","B","C","D","X">>, <<"a","a","p","l","x">>,
     <<"Z","Z","Z">>, IsinAAPL, <<>>}

IdentInputs ==
    {[kind |-> k, fields |-> [BaseTrade EXCEPT !.ticker = Str(t), !.counterparty = Str(c)]] :
        k \in {"dict", "json"}, t \in IdentTickers, c \in {<<"M","S">>, <<"X","X">>}}

IdentInit ==
    /\ equities \in Directories
    /\ thresholds \in {MergeThresholds(o) : o \in IdentThresholds}
    /\ normIn = NoCall /\ normLocals = NoCall /\ normOut = NoCall
    /\ omsArgs = DefaultArgs
    /\ omsCfg = OMSAgentInit(omsArgs)
    /\ omsIn = NoCall
    /\ omsOut = NoCall
    /\ priceCfg = NoCall /\ cache = <<>> /\ now = 0 /\ marketData = "base"
    /\ priceIn = NoCall /\ priceOut = NoCall /\ pricePrev = NoCall
    /\ fetchIn = NoCall /\ fetchOut = NoCall /\ fetchPrev = NoCall /\ pool = NoCall
    /\ cmpIn = NoCall /\ cmpOut = NoCall
    /\ deskCfg = NoCall /\ desk = NoCall

IdentNext ==
    \/ (omsIn = NoCall /\ \E trade_json \in IdentInputs, market \in MarketOutcomes :
                            OMSRun(trade_json, market))
    \/ OMSReturn

SpecIdent == IdentInit /\ [][IdentNext]_vars

-----------------------------------------------------------------------------
(* Mark Classification Engine: src/src/pricing/normalizer.py,
   src/src/pricing/schema.py, src/src/pricing/config.py *)

\* DEFAULTS of config.py, thresholds in hundredths; no tolerances.yaml and no
\* PRICING_* environment variable
DefaultTolerances ==
    [ok_threshold |-> 2, review_threshold |-> 5, stale_days |-> 5, retry_count |-> 0,
     max_workers |-> 1, instrument_overrides |-> <<>>]

\* MarketNormalizer.__init__: the instance without its cache
MarketNormalizerInit(tolerances, refmaster) ==
    [tolerances |-> [k \in DOMAIN DefaultTolerances |->
                        IF k \in DOMAIN tolerances THEN tolerances[k]
                        ELSE DefaultTolerances[k]],
     refmaster |-> refmaster]

\* the clock counts half days: datetime.utcnow() is `now`,
\* datetime.utcnow().date() is Today(now)
Today(t) == t \div 2

\* get_price_snapshot(ticker, dt) of the Market Price Source, whose data is in
\* state `marketData`: AAPL closed at 100 on every day; after a revision of the
\* data it closed at 0 on day 4 and at 110 on the other days; no other
\* ticker is known.
GetPriceSnapshot(mkt, ticker, day) ==
    IF Strip(Upper(ticker)) # S_AAPL THEN [ok |-> FALSE, reason |-> "not found"]
    ELSE IF mkt = "base" THEN [ok |-> TRUE, price |-> 100, date |-> IsoDate(day)]
    ELSE [ok |-> TRUE, price |-> (IF day = 4 THEN 0 ELSE 110), date |-> IsoDate(day)]

RECURSIVE Attempts_ExtraRetry(_, _, _, _, _, _)
\* Mutation of Attempts: the loop gives up when attempt > retries, one call
\* later
Attempts_ExtraRetry(attempt, retries, outage, mkt, ticker, day) ==
    LET snap == IF outage > 0 THEN [ok |-> FALSE, reason |-> "network"]
                ELSE GetPriceSnapshot(mkt, ticker, day)
        left == IF outage > 0 THEN outage - 1 ELSE 0
    IN  IF snap.ok
        THEN [ok |-> TRUE, price |-> snap.price, date |-> snap.date,
              calls |-> attempt + 1, outage |-> left]
        ELSE IF attempt > retries
        THEN [ok |-> FALSE,
              error |-> IF snap.reason = "network" THEN "network_error"
                        ELSE "ticker_not_found",
              calls |-> attempt + 1, outage |-> left]
        ELSE Attempts_ExtraRetry(attempt + 1, retries, left, mkt, ticker, day)

RECURSIVE Attempts(_, _, _, _, _, _)
\* the while loop of fetch_market_price; the next `outage` calls of the
\* source raise a network error
Attempts(attempt, retries, outage, mkt, ticker, day) ==
    LET snap == IF outage > 0 THEN [ok |-> FALSE, reason |-> "network"]
                ELSE GetPriceSnapshot(mkt, ticker, day)
        left == IF outage > 0 THEN outage - 1 ELSE 0
    IN  IF snap.ok
        THEN [ok |-> TRUE, price |-> snap.price, date |-> snap.date,
              calls |-> attempt + 1, outage |-> left]
        ELSE IF attempt >= retries
        THEN [ok |-> FALSE,
              error |-> CASE snap.reason = "network" -> "network_error"
                          [] snap.reason = "not found" -> "ticker_not_found"
                          [] snap.reason = "rate limit" -> "rate_limit_exceeded"
                          [] OTHER -> "fetch_failed",
              calls |-> attempt + 1, outage |-> left]
        ELSE Attempts(attempt + 1, retries, left, mkt, ticker, day)

\* the cache key of the fetch _enrich_one makes for a mark
CacheKeyOf(mark) == <<Upper(mark.ticker), mark.as_of_date>>

\* Mutation of FetchMarketPrice: the error of a failed fetch is cached too
FetchMarketPrice_CachesErrors(cfg, c, mkt, ticker, as_of_date, outage) ==
    LET cache_key == <<Upper(ticker), as_of_date>>
    IN  IF cache_key \in DOMAIN c
        THEN [result |-> c[cache_key], cache |-> c, calls |-> 0, outage |-> outage,
              hit |-> TRUE, entry |-> outage]
        ELSE IF as_of_date.t # "isodate"
        THEN [result |-> [price |-> None, date |-> None, error |-> Str("invalid_date")],
              cache |-> c, calls |-> 0, outage |-> outage,
              hit |-> FALSE, entry |-> outage]
        ELSE LET a == Attempts(0, cfg.tolerances.retry_count, outage, mkt, ticker,
                               as_of_date.day)
                 result == IF a.ok
                           THEN [price |-> Num(a.price), date |-> a.date, error |-> None]
                           ELSE [price |-> None, date |-> None, error |-> Str(a.error)]
             IN  [result |-> result,
                  cache |-> [k \in DOMAIN c \cup {cache_key} |->
                                IF k = cache_key THEN result ELSE c[k]],
                  calls |-> a.calls, outage |-> a.outage,
                  hit |-> FALSE, entry |-> outage]

\* Mutation of FetchMarketPrice: the cache key holds the ticker as given
FetchMarketPrice_KeyAsGiven(cfg, c, mkt, ticker, as_of_date, outage) ==
    LET cache_key == <<ticker, as_of_date>>
    IN  IF cache_key \in DOMAIN c
        THEN [result |-> c[cache_key], cache |-> c, calls |-> 0, outage |-> outage,
              hit |-> TRUE, entry |-> outage]
        ELSE IF as_of_date.t # "isodate"
        THEN [result |-> [price |-> None, date |-> None, error |-> Str("invalid_date")],
              cache |-> c, calls |-> 0, outage |-> outage,
              hit |-> FALSE, entry |-> outage]
        ELSE LET a == Attempts(0, cfg.tolerances.retry_count, outage, mkt, ticker,
                               as_of_date.day)
                 result == IF a.ok
                           THEN [price |-> Num(a.price), date |-> a.date, error |-> None]
                           ELSE [price |-> None, date |-> None, error |-> Str(a.error)]
             IN  [result |-> result,
                  cache |-> IF a.ok
                            THEN [k \in DOMAIN c \cup {cache_key} |->
                                    IF k = cache_key THEN result ELSE c[k]]
                            ELSE c,
                  calls |-> a.calls, outage |-> a.outage,
                  hit |-> FALSE, entry |-> outage]

\* MarketNormalizer.fetch_market_price: the result dict (an absent key is
\* None), the cache after the call, the calls made to the source, whether the
\* cache held the key (hit) and the outage the source was in at the call
\* (entry)
FetchMarketPrice(cfg, c, mkt, ticker, as_of_date, outage) ==
    LET cache_key == <<Upper(ticker), as_of_date>>
    IN  IF cache_key \in DOMAIN c
        THEN [result |-> c[cache_key], cache |-> c, calls |-> 0, outage |-> outage,
              hit |-> TRUE, entry |-> outage]
        ELSE IF as_of_date.t # "isodate"
        THEN [result |-> [price |-> None, date |-> None, error |-> Str("invalid_date")],
              cache |-> c, calls |-> 0, outage |-> outage,
              hit |-> FALSE, entry |-> outage]
        ELSE LET a == Attempts(0, cfg.tolerances.retry_count, outage, mkt, ticker,
                               as_of_date.day)
                 result == IF a.ok
                           THEN [price |-> Num(a.price), date |-> a.date, error |-> None]
                           ELSE [price |-> None, date |-> None, error |-> Str(a.error)]
             IN  [result |-> result,
                  cache |-> IF a.ok
                            THEN [k \in DOMAIN c \cup {cache_key} |->
                                    IF k = cache_key THEN result ELSE c[k]]
                            ELSE c,
                  calls |-> a.calls, outage |-> a.outage,
                  hit |-> FALSE, entry |-> outage]

\* the thresholds compare_mark_to_market resolves for a ticker
ResolveThresholds(cfg, ticker) ==
    LET overrides == cfg.tolerances.instrument_overrides
        get(k) == IF ticker \in DOMAIN overrides /\ k \in DOMAIN overrides[ticker]
                  THEN overrides[ticker][k] ELSE cfg.tolerances[k]
    IN  [ok_th |-> get("ok_threshold"), review_th |-> get("review_threshold")]

\* MarketNormalizer.compare_mark_to_market; deviation_percentage is kept as
\* the fraction num / den
CompareMarkToMarket(cfg, internal_mark, market_price, ticker) ==
    IF market_price = None
    THEN [market_price |-> None, deviation_absolute |-> None,
          deviation_percentage |-> None, classification |-> "NO_MARKET_DATA"]
    ELSE LET t == ResolveThresholds(cfg, ticker)
             mp == market_price.v
             deviation_abs == internal_mark - mp
         IN  [market_price |-> market_price,
              deviation_absolute |-> Num(deviation_abs),
              deviation_percentage |->
                 IF mp # 0 THEN [t |-> "frac", num |-> Abs(deviation_abs), den |-> mp]
                 ELSE None,
              classification |->
                 IF mp = 0 THEN "NO_MARKET_DATA"
                 ELSE IF DeviatesMoreThan(internal_mark, mp, t.review_th) THEN "OUT_OF_TOLERANCE"
                 ELSE IF DeviatesMoreThan(internal_mark, mp, t.ok_th) THEN "REVIEW_NEEDED"
                 ELSE "OK"]

\* MarketNormalizer._is_stale
IsStale(cfg, as_of_date, t) ==
    IF as_of_date.t # "isodate" THEN FALSE
    ELSE Today(t) - as_of_date.day > cfg.tolerances.stale_days

\* Mark(**record): the Mark, or the ValidationError
ParseMark(record) ==
    LET ticker == IF record.ticker.t = "str"
                  THEN Str(Upper(Strip(record.ticker.v))) ELSE record.ticker
    IN  IF /\ ticker.t = "str"
           /\ record.internal_mark.t = "num"
           /\ record.as_of_date.t = "isodate"
        THEN [ok |-> TRUE,
              mark |-> [ticker |-> ticker.v, internal_mark |-> record.internal_mark.v,
                        as_of_date |-> record.as_of_date]]
        ELSE [ok |-> FALSE]

\* Mutation of Reclassify: the error is looked at first and staleness last
Reclassify_StaleLast(classification, stale, has_error) ==
    IF stale THEN "STALE_MARK"
    ELSE IF has_error THEN "NO_MARKET_DATA"
    ELSE classification

\* the last two if statements of _enrich_one: staleness replaces a class
\* other than NO_MARKET_DATA, then an error of the fetch forces NO_MARKET_DATA
Reclassify(classification, stale, has_error) ==
    LET staled == IF stale /\ classification # "NO_MARKET_DATA"
                  THEN "STALE_MARK" ELSE classification
    IN  IF has_error THEN "NO_MARKET_DATA" ELSE staled

\* the EnrichedMark of a mark the refmaster does not know
UnknownTicker(mark) ==
    [ticker |-> mark.ticker, internal_mark |-> mark.internal_mark,
     as_of_date |-> mark.as_of_date, market_price |-> None,
     deviation_absolute |-> None, deviation_percentage |-> None,
     classification |-> "NO_MARKET_DATA", market_data_date |-> None,
     market_data_source |-> None, fetch_timestamp |-> None,
     tolerance_override_applied |-> None, error |-> Str("unknown_ticker")]

\* the EnrichedMark of _enrich_one from the fetched result and the comparison
Enriched(cfg, mark, t, result, cmp) ==
    [ticker |-> mark.ticker, internal_mark |-> mark.internal_mark,
     as_of_date |-> mark.as_of_date, market_price |-> cmp.market_price,
     deviation_absolute |-> cmp.deviation_absolute,
     deviation_percentage |-> cmp.deviation_percentage,
     classification |->
        Reclassify(cmp.classification, IsStale(cfg, mark.as_of_date, t),
                   result.error # None),
     market_data_date |-> result.date,
     market_data_source |-> Str("financialdatasets.ai"),
     fetch_timestamp |-> Num(t),
     tolerance_override_applied |->
        (mark.ticker \in DOMAIN cfg.tolerances.instrument_overrides),
     error |-> result.error]

\* _enrich_one from the fetch on
EnrichFetched(cfg, mark, t, f) ==
    [raised |-> FALSE, cache |-> f.cache, outage |-> f.outage, calls |-> f.calls,
     enriched |->
        Enriched(cfg, mark, t, f.result,
                 CompareMarkToMarket(cfg, mark.internal_mark, f.result.price, mark.ticker)),
     path |-> [rejected |-> FALSE, fetched |-> TRUE,
               stale |-> IsStale(cfg, mark.as_of_date, t),
               hit |-> f.hit, entry |-> f.entry, calls |-> f.calls]]

\* Mutation of EnrichParsed: the price is fetched before the refmaster is
\* asked
EnrichParsed_FetchFirst(cfg, c, mkt, t, mark, outage, rm) ==
    IF cfg.refmaster /\ (rm.raised \/ rm.results = <<>>)
    THEN [raised |-> FALSE,
          cache |-> FetchMarketPrice(cfg, c, mkt, mark.ticker, mark.as_of_date, outage).cache,
          outage |-> FetchMarketPrice(cfg, c, mkt, mark.ticker, mark.as_of_date, outage).outage,
          calls |-> FetchMarketPrice(cfg, c, mkt, mark.ticker, mark.as_of_date, outage).calls,
          enriched |-> UnknownTicker(mark),
          path |-> [rejected |-> TRUE, fetched |-> FALSE,
                    stale |-> IsStale(cfg, mark.as_of_date, t),
                    hit |-> FALSE, entry |-> outage,
                    calls |-> FetchMarketPrice(cfg, c, mkt, mark.ticker, mark.as_of_date,
                                               outage).calls]]
    ELSE EnrichFetched(cfg, mark, t,
                       FetchMarketPrice(cfg, c, mkt, mark.ticker, mark.as_of_date, outage))

\* _enrich_one after Mark(**record); rm is what the refmaster did, when there
\* is one
EnrichParsed(cfg, c, mkt, t, mark, outage, rm) ==
    IF cfg.refmaster /\ (rm.raised \/ rm.results = <<>>)
    THEN [raised |-> FALSE, cache |-> c, outage |-> outage, calls |-> 0,
          enriched |-> UnknownTicker(mark),
          path |-> [rejected |-> TRUE, fetched |-> FALSE,
                    stale |-> IsStale(cfg, mark.as_of_date, t),
                    hit |-> FALSE, entry |-> outage, calls |-> 0]]
    ELSE EnrichFetched(cfg, mark, t,
                       FetchMarketPrice(cfg, c, mkt, mark.ticker, mark.as_of_date, outage))

\* MarketNormalizer._enrich_one at time t: whether Mark(**record) raised; the
\* EnrichedMark; the cache and the source's outage after it; and what
\* happened on the way (rejected by the refmaster, fetch attempted, stale,
\* cache hit, the source's outage at the fetch, calls made to the source)
EnrichOne(cfg, eqs, th, c, mkt, t, record, outage) ==
    IF ~ParseMark(record).ok
    THEN [raised |-> TRUE, cache |-> c, outage |-> outage, calls |-> 0]
    ELSE EnrichParsed(cfg, c, mkt, t, ParseMark(record).mark, outage,
                      IF cfg.refmaster
                      THEN Normalize(eqs, th, ParseMark(record).mark.ticker, 1)
                      ELSE NoCall)

RECURSIVE EnrichFrom(_, _, _, _, _, _, _, _)
\* one round of the loop of enrich_marks: e is what _enrich_one did on record i
EnrichStep(cfg, eqs, th, mkt, t, records, i, acc, e) ==
    IF e.raised
    THEN [acc EXCEPT !.raised = TRUE, !.results = <<>>, !.paths = <<>>]
    ELSE EnrichFrom(cfg, eqs, th, mkt, t, records, i + 1,
                    [raised |-> FALSE, cache |-> e.cache, outage |-> e.outage,
                     results |-> Append(acc.results, e.enriched),
                     paths |-> Append(acc.paths, e.path),
                     calls |-> acc.calls + e.calls])

\* the sequential loop of enrich_marks from record i on; acc is the cache, the
\* outage left, the results and the source calls so far
EnrichFrom(cfg, eqs, th, mkt, t, records, i, acc) ==
    IF i > Len(records) THEN acc
    ELSE EnrichStep(cfg, eqs, th, mkt, t, records, i, acc,
                    EnrichOne(cfg, eqs, th, acc.cache, mkt, t, records[i], acc.outage))

\* MarketNormalizer.enrich_marks on a list of records, max_workers = 1
EnrichMarks(cfg, eqs, th, c, mkt, t, records, outage) ==
    EnrichFrom(cfg, eqs, th, mkt, t, records, 1,
               [raised |-> FALSE, cache |-> c, outage |-> outage, results |-> <<>>,
                paths |-> <<>>, calls |-> 0])

S_ZZZ == <<"Z","Z","Z">>

\* Constructor arguments: the defaults; one retry; one retry with a refmaster
\* and an override of AAPL's ok_threshold
PricingArgs ==
    { [tolerances |-> <<>>, refmaster |-> FALSE],
      [tolerances |-> [retry_count |-> 1], refmaster |-> FALSE],
      [tolerances |-> [retry_count |-> 1,
                       instrument_overrides |-> [t \in {S_AAPL} |-> [ok_threshold |-> 4]]],
       refmaster |-> TRUE] }

MarkRecord(ticker, internal_mark, as_of_date) ==
    [ticker |-> ticker, internal_mark |-> internal_mark, as_of_date |-> as_of_date]

\* The marks of a batch: AAPL on day 5 at 103; AAPL in lower case on day 4,
\* more than stale_days before the start of the clock; a ticker nobody
\* knows, on day 4; a mark whose date is not a date
MarkRecords ==
    { MarkRecord(Str(S_AAPL), Num(103), IsoDate(5)),
      MarkRecord(Str(<<" ","a","a","p","l">>), Num(106), IsoDate(4)),
      MarkRecord(Str(S_ZZZ), Num(100), IsoDate(4)),
      MarkRecord(Str(S_AAPL), Num(100), Str(<<"b","a","d">>)) }

MaxBatch == 2
MaxOutage == 1
MaxNow == 21

RECURSIVE BatchesOf(_)
BatchesOf(n) ==
    IF n = 0 THEN {<<>>}
    ELSE {Append(b, m) : b \in BatchesOf(n - 1), m \in MarkRecords}

Batches == UNION {BatchesOf(n) : n \in 0..MaxBatch}

PricingInit ==
    /\ equities = <<EqAAPL, EqMSFT, EqABC, EqABCD>>
    /\ thresholds = DefaultThresholds
    /\ normIn = NoCall /\ normLocals = NoCall /\ normOut = NoCall
    /\ omsArgs = NoCall /\ omsCfg = NoCall /\ omsIn = NoCall /\ omsOut = NoCall
    /\ priceCfg \in {MarketNormalizerInit(a.tolerances, a.refmaster) : a \in PricingArgs}
    /\ cache = <<>>
    /\ now = 20
    /\ marketData = "base"
    /\ priceIn = NoCall /\ priceOut = NoCall /\ pricePrev = NoCall
    /\ fetchIn = NoCall /\ fetchOut = NoCall /\ fetchPrev = NoCall /\ pool = NoCall
    /\ cmpIn = NoCall /\ cmpOut = NoCall
    /\ deskCfg = NoCall /\ desk = NoCall

\* the effect on the state of an enrich_marks(marks) that did r
Enriching(marks, r) ==
    /\ cache' = r.cache
    /\ priceOut' = [raised |-> r.raised, results |-> r.results, paths |-> r.paths,
                    calls |-> r.calls]
    /\ priceIn' = [marks |-> marks, now |-> now, market |-> marketData]
    /\ pricePrev' = IF priceIn = NoCall THEN NoCall
                    ELSE [now |-> priceIn.now, market |-> priceIn.market, out |-> priceOut]
    /\ UNCHANGED <<normVars, omsVars, deskVars, compareVars, fetchVars, pool, priceCfg, now, marketData>>

\* normalizer.enrich_marks(marks), a batch is run
EnrichCall(marks, outage) ==
    /\ priceIn = NoCall
    /\ Enriching(marks, EnrichMarks(priceCfg, equities, thresholds, cache, marketData, now,
                                    marks, outage))

\* normalizer.enrich_marks(marks), the batch in hand is run a second time
EnrichAgain(outage) ==
    /\ priceIn # NoCall
    /\ pricePrev = NoCall
    /\ Enriching(priceIn.marks,
                 EnrichMarks(priceCfg, equities, thresholds, cache, marketData, now,
                             priceIn.marks, outage))

\* the caller is done with the batch
EnrichReturn ==
    /\ priceIn # NoCall
    /\ priceIn' = NoCall /\ priceOut' = NoCall /\ pricePrev' = NoCall
    /\ UNCHANGED <<normVars, omsVars, deskVars, compareVars, fetchVars, pool, priceCfg, cache, now, marketData>>

\* time passes
Tick ==
    /\ now < MaxNow
    /\ now' = now + 1
    /\ UNCHANGED <<normVars, omsVars, deskVars, compareVars, fetchVars, pool, priceCfg, cache, marketData, priceIn, priceOut, pricePrev>>

\* the source revises its data
MarketRevision ==
    /\ marketData = "base"
    /\ marketData' = "revised"
    /\ UNCHANGED <<normVars, omsVars, deskVars, compareVars, fetchVars, pool, priceCfg, cache, now, priceIn, priceOut, pricePrev>>

PricingNext ==
    \/ (priceIn = NoCall /\ \E marks \in Batches, outage \in 0..MaxOutage :
                                EnrichCall(marks, outage))
    \/ \E outage \in 0..MaxOutage : EnrichAgain(outage)
    \/ EnrichReturn
    \/ Tick
    \/ MarketRevision

SpecPricing == PricingInit /\ [][PricingNext]_vars

-----------------------------------------------------------------------------
(* enrich_marks of a MarketNormalizer with a refmaster                     *)

\* thresholds of the refmaster: the defaults, and exact = 1.5, with which
\* normalize raises on a text that holds a listed ISIN
RefThresholds == {<<>>, [exact |-> 150]}

\* marks on day 9 and 10: AAPL, a ticker nobody knows, and a mark whose
\* ticker is AAPL's ISIN
RefRecords ==
    { MarkRecord(Str(S_AAPL), Num(103), IsoDate(10)),
      MarkRecord(Str(<<"a","a","p","l">>), Num(100), IsoDate(9)),
      MarkRecord(Str(S_ZZZ), Num(100), IsoDate(10)),
      MarkRecord(Str(IsinAAPL), Num(100), IsoDate(10)) }

RECURSIVE RefBatchesOf(_)
RefBatchesOf(n) ==
    IF n = 0 THEN {<<>>}
    ELSE {Append(b, m) : b \in RefBatchesOf(n - 1), m \in RefRecords}

RefBatches == UNION {RefBatchesOf(n) : n \in 1..MaxBatch}

RefInit ==
    /\ equities = <<EqAAPL, EqMSFT, EqABC, EqABCD>>
    /\ thresholds \in {MergeThresholds(o) : o \in RefThresholds}
    /\ normIn = NoCall /\ normLocals = NoCall /\ normOut = NoCall
    /\ omsArgs = NoCall /\ omsCfg = NoCall /\ omsIn = NoCall /\ omsOut = NoCall
    /\ priceCfg = MarketNormalizerInit(<<>>, TRUE)
    /\ cache = <<>>
    /\ now = 20
    /\ marketData = "base"
    /\ priceIn = NoCall /\ priceOut = NoCall /\ pricePrev = NoCall
    /\ fetchIn = NoCall /\ fetchOut = NoCall /\ fetchPrev = NoCall /\ pool = NoCall
    /\ cmpIn = NoCall /\ cmpOut = NoCall
    /\ deskCfg = NoCall /\ desk = NoCall

RefNext ==
    \/ (priceIn = NoCall /\ \E marks \in RefBatches, outage \in 0..MaxOutage :
                                EnrichCall(marks, outage))
    \/ EnrichReturn

SpecRefmaster == RefInit /\ [][RefNext]_vars

-----------------------------------------------------------------------------
(* The price cache under direct fetches and batches: a caller that calls   *)
(* fetch_market_price and enrich_marks on one MarketNormalizer             *)

\* The tickers a caller fetches: AAPL, AAPL in lower case, a ticker nobody
\* knows
FetchTickers == {S_AAPL, <<"a","a","p","l">>, S_ZZZ}

\* The dates a caller fetches: day 4, day 5, and a string that is no date
FetchDates == {IsoDate(4), IsoDate(5), Str(<<"b","a","d">>)}

FetchInit == PricingInit

\* the effect on the state of a fetch_market_price that did f
Fetching(ticker, as_of_date, f) ==
    /\ cache' = f.cache
    /\ fetchIn' = [ticker |-> ticker, as_of_date |-> as_of_date, outage |-> f.entry,
                   before |-> cache, market |-> marketData]
    /\ fetchOut' = [result |-> f.result, calls |-> f.calls]
    /\ fetchPrev' = IF fetchIn = NoCall THEN NoCall
                    ELSE [before |-> fetchIn.before, out |-> fetchOut]
    /\ UNCHANGED <<normVars, omsVars, deskVars, compareVars, pool, priceCfg, now, marketData,
                   priceIn, priceOut, pricePrev>>

\* normalizer.fetch_market_price(ticker, as_of_date)
FetchCall(ticker, as_of_date, outage) ==
    /\ fetchIn = NoCall
    /\ priceIn = NoCall
    /\ Fetching(ticker, as_of_date,
                FetchMarketPrice(priceCfg, cache, marketData, ticker, as_of_date, outage))

\* normalizer.fetch_market_price with the same arguments, a second time
FetchAgain(outage) ==
    /\ fetchIn # NoCall
    /\ fetchPrev = NoCall
    /\ Fetching(fetchIn.ticker, fetchIn.as_of_date,
                FetchMarketPrice(priceCfg, cache, marketData, fetchIn.ticker,
                                 fetchIn.as_of_date, outage))

\* the caller is done with the fetched result
FetchReturn ==
    /\ fetchIn # NoCall
    /\ fetchIn' = NoCall /\ fetchOut' = NoCall /\ fetchPrev' = NoCall
    /\ UNCHANGED <<normVars, omsVars, deskVars, compareVars, pool, priceCfg, cache, now, marketData,
                   priceIn, priceOut, pricePrev>>

FetchNext ==
    \/ (fetchIn = NoCall /\ priceIn = NoCall
          /\ \E ticker \in FetchTickers, as_of_date \in FetchDates, outage \in 0..MaxOutage :
                FetchCall(ticker, as_of_date, outage))
    \/ \E outage \in 0..MaxOutage : FetchAgain(outage)
    \/ FetchReturn
    \/ (fetchIn = NoCall /\ priceIn = NoCall
          /\ \E marks \in Batches, outage \in 0..MaxOutage : EnrichCall(marks, outage))
    \/ EnrichReturn
    \/ MarketRevision

SpecFetch == FetchInit /\ [][FetchNext]_vars

-----------------------------------------------------------------------------
(* enrich_marks with max_workers > 1: ThreadPoolExecutor.map runs          *)
(* _enrich_one on the records, the workers share the price cache.  A step  *)
(* of a worker is one access to the cache or to the source, together with  *)
(* the thread-local code around it (the Mark of the record, the refmaster, *)
(* the comparison); a dict lookup or insert is one atomic step.            *)

\* Constructor arguments with two workers: no refmaster, no retry; and one
\* retry with a refmaster
PoolArgs ==
    { [tolerances |-> [max_workers |-> 2], refmaster |-> FALSE],
      [tolerances |-> [max_workers |-> 2, retry_count |-> 1], refmaster |-> TRUE] }

PoolInit ==
    /\ equities = <<EqAAPL, EqMSFT, EqABC, EqABCD>>
    /\ thresholds = DefaultThresholds
    /\ normIn = NoCall /\ normLocals = NoCall /\ normOut = NoCall
    /\ omsArgs = NoCall /\ omsCfg = NoCall /\ omsIn = NoCall /\ omsOut = NoCall
    /\ priceCfg \in {MarketNormalizerInit(a.tolerances, a.refmaster) : a \in PoolArgs}
    /\ cache = <<>>
    /\ now = 20
    /\ marketData = "base"
    /\ priceIn = NoCall /\ priceOut = NoCall /\ pricePrev = NoCall
    /\ fetchIn = NoCall /\ fetchOut = NoCall /\ fetchPrev = NoCall /\ pool = NoCall
    /\ cmpIn = NoCall /\ cmpOut = NoCall
    /\ deskCfg = NoCall /\ desk = NoCall

\* the worker threads of the executor
Workers == 1..priceCfg.tolerances.max_workers

Idle == [pc |-> "idle"]

\* a future that has not run yet
Pending == [pending |-> TRUE]

\* normalizer.enrich_marks(marks): every record is submitted to the executor
PoolCall(marks) ==
    /\ pool = NoCall
    /\ priceCfg.tolerances.max_workers > 1
    /\ pool' = [records |-> marks, before |-> cache, market |-> marketData,
                next |-> 1, cancelled |-> FALSE,
                work |-> [w \in Workers |-> Idle],
                futures |-> [i \in 1..Len(marks) |-> Pending],
                seen |-> {}, returned |-> NoCall]
    /\ UNCHANGED <<normVars, omsVars, deskVars, compareVars, fetchVars, priceCfg, cache, now, marketData,
                   priceIn, priceOut, pricePrev>>

\* Mutation of Finished: the outcome goes to the first future without a
\* result, as if results were collected in completion order
Finished_CompletionOrder(w, i, e) ==
    [pool EXCEPT !.work[w] = Idle,
                 !.next = IF pool.work[w] = Idle THEN pool.next + 1 ELSE pool.next,
                 !.futures[CHOOSE j \in 1..Len(pool.records) :
                              /\ pool.futures[j] = Pending
                              /\ \A l \in 1..(j - 1) : pool.futures[l] # Pending] = e]

\* the pool after worker w has finished record i with outcome e
Finished(w, i, e) ==
    [pool EXCEPT !.work[w] = Idle,
                 !.next = IF pool.work[w] = Idle THEN pool.next + 1 ELSE pool.next,
                 !.futures[i] = e]

\* what worker w does on taking record i, rm being what the refmaster did:
\* the record does not parse and _enrich_one raises; or the refmaster rejects
\* the ticker; or the cache holds the key and the mark is enriched from it;
\* or the cache misses and the worker goes on to the source
Started(w, i, parsed, rm) ==
    IF ~parsed.ok
    THEN /\ pool' = Finished(w, i, [raised |-> TRUE])
         /\ UNCHANGED cache
    ELSE IF priceCfg.refmaster /\ (rm.raised \/ rm.results = <<>>)
    THEN /\ pool' = Finished(w, i, EnrichParsed(priceCfg, cache, marketData, now,
                                                parsed.mark, 0, rm))
         /\ UNCHANGED cache
    ELSE IF CacheKeyOf(parsed.mark) \in DOMAIN cache
    THEN /\ pool' = Finished(w, i, EnrichParsed(priceCfg, cache, marketData, now,
                                                parsed.mark, 0, rm))
         /\ UNCHANGED cache
    ELSE /\ pool' = [pool EXCEPT !.work[w] = [pc |-> "fetch", i |-> i, mark |-> parsed.mark],
                                 !.next = pool.next + 1]
         /\ UNCHANGED cache

\* an idle worker takes the next record off the executor's queue and runs
\* _enrich_one up to the cache lookup of fetch_market_price
Start(w) ==
    /\ pool # NoCall
    /\ pool.returned = NoCall
    /\ ~pool.cancelled
    /\ pool.work[w] = Idle
    /\ pool.next <= Len(pool.records)
    /\ Started(w, pool.next, ParseMark(pool.records[pool.next]),
               IF priceCfg.refmaster /\ ParseMark(pool.records[pool.next]).ok
               THEN Normalize(equities, thresholds,
                              ParseMark(pool.records[pool.next]).mark.ticker, 1)
               ELSE NoCall)
    /\ UNCHANGED <<normVars, omsVars, deskVars, compareVars, fetchVars, priceCfg, now, marketData,
                   priceIn, priceOut, pricePrev>>

\* what a worker does with the outcome f of its calls to the source: an
\* error ends _enrich_one, a price is still to be put into the cache
Fetched(w, i, mark, f) ==
    IF f.result.error # None
    THEN pool' = Finished(w, i, EnrichFetched(priceCfg, mark, now, f))
    ELSE pool' = [pool EXCEPT !.work[w] = [pc |-> "insert", i |-> i, mark |-> mark,
                                           result |-> f.result, calls |-> f.calls]]

\* a worker that missed calls the source, with its retries (lines 42-45 and
\* 48-60); the cache it looks at is the empty one, the miss is behind it
Fetch(w) ==
    /\ pool # NoCall
    /\ pool.work[w].pc = "fetch"
    /\ Fetched(w, pool.work[w].i, pool.work[w].mark,
               FetchMarketPrice(priceCfg, <<>>, marketData, pool.work[w].mark.ticker,
                                pool.work[w].mark.as_of_date, 0))
    /\ UNCHANGED <<normVars, omsVars, deskVars, compareVars, fetchVars, priceCfg, cache, now, marketData,
                   priceIn, priceOut, pricePrev>>

\* Mutation of Insert: the insert replaces the whole cache
Insert_DropsOthers(w) ==
    /\ pool # NoCall
    /\ pool.work[w].pc = "insert"
    /\ cache' = [k \in {CacheKeyOf(pool.work[w].mark)} |-> pool.work[w].result]
    /\ pool' = Finished(w, pool.work[w].i,
                        EnrichFetched(priceCfg, pool.work[w].mark, now,
                                      [result |-> pool.work[w].result, cache |-> cache',
                                       outage |-> 0, calls |-> pool.work[w].calls,
                                       hit |-> FALSE, entry |-> 0]))
    /\ UNCHANGED <<normVars, omsVars, deskVars, compareVars, fetchVars, priceCfg, now, marketData,
                   priceIn, priceOut, pricePrev>>

\* self._cache[cache_key] = result (line 46), and the rest of _enrich_one
Insert(w) ==
    /\ pool # NoCall
    /\ pool.work[w].pc = "insert"
    /\ cache' = [k \in DOMAIN cache \cup {CacheKeyOf(pool.work[w].mark)} |->
                    IF k = CacheKeyOf(pool.work[w].mark) THEN pool.work[w].result
                    ELSE cache[k]]
    /\ pool' = Finished(w, pool.work[w].i,
                        EnrichFetched(priceCfg, pool.work[w].mark, now,
                                      [result |-> pool.work[w].result, cache |-> cache',
                                       outage |-> 0, calls |-> pool.work[w].calls,
                                       hit |-> FALSE, entry |-> 0]))
    /\ UNCHANGED <<normVars, omsVars, deskVars, compareVars, fetchVars, priceCfg, now, marketData,
                   priceIn, priceOut, pricePrev>>

\* the futures the main thread has got the result of, in input order
Collected == {i \in 1..Len(pool.records) : \A j \in 1..i : pool.futures[j] # Pending}

\* the main thread, iterating executor.map, gets the exception of a record
\* whose _enrich_one raised: the iterator cancels every future that has not
\* started
Reraise ==
    /\ pool # NoCall
    /\ pool.returned = NoCall
    /\ ~pool.cancelled
    /\ \E i \in Collected : pool.futures[i].raised
    /\ pool' = [pool EXCEPT !.cancelled = TRUE]
    /\ UNCHANGED <<normVars, omsVars, deskVars, compareVars, fetchVars, priceCfg, cache, now, marketData,
                   priceIn, priceOut, pricePrev>>

\* the with block ends when every worker that runs has finished: the
\* call returns the results in input order, or raises
PoolJoin ==
    /\ pool # NoCall
    /\ pool.returned = NoCall
    /\ \A w \in Workers : pool.work[w] = Idle
    /\ IF pool.cancelled
       THEN pool' = [pool EXCEPT !.returned = [raised |-> TRUE, results |-> <<>>,
                                               paths |-> <<>>]]
       ELSE /\ Collected = 1..Len(pool.records)
            /\ \A i \in Collected : ~pool.futures[i].raised
            /\ pool' = [pool EXCEPT !.returned =
                          [raised |-> FALSE,
                           results |-> [i \in 1..Len(pool.records) |->
                                           pool.futures[i].enriched],
                           paths |-> [i \in 1..Len(pool.records) |->
                                         pool.futures[i].path]]]
    /\ UNCHANGED <<normVars, omsVars, deskVars, compareVars, fetchVars, priceCfg, cache, now, marketData,
                   priceIn, priceOut, pricePrev>>

\* the caller is done with the batch
PoolReturn ==
    /\ pool # NoCall
    /\ pool.returned # NoCall
    /\ pool' = NoCall
    /\ UNCHANGED <<normVars, omsVars, deskVars, compareVars, fetchVars, priceCfg, cache, now, marketData,
                   priceIn, priceOut, pricePrev>>

PoolNext ==
    \/ (pool = NoCall /\ \E marks \in Batches : PoolCall(marks))
    \/ \E w \in Workers : Start(w)
    \/ \E w \in Workers : Fetch(w)
    \/ \E w \in Workers : Insert(w)
    \/ Reraise
    \/ PoolJoin
    \/ PoolReturn
    \/ MarketRevision

SpecPool == PoolInit /\ [][PoolNext]_vars

-----------------------------------------------------------------------------
(* compare_mark_to_market called on its own                                *)

\* tolerances arguments: the defaults; an override of AAPL's ok_threshold
\* only; an override of both of AAPL's thresholds; global thresholds with
\* an override of MSFT's review_threshold only; an override that puts AAPL's
\* ok_threshold above the global review_threshold
CompareArgs ==
    { <<>>,
      [instrument_overrides |-> [t \in {S_AAPL} |-> [ok_threshold |-> 4]]],
      [instrument_overrides |->
          [t \in {S_AAPL} |-> [ok_threshold |-> 1, review_threshold |-> 3]]],
      [ok_threshold |-> 3, review_threshold |-> 6,
       instrument_overrides |-> [t \in {S_MSFT} |-> [review_threshold |-> 10]]],
      [instrument_overrides |-> [t \in {S_AAPL} |-> [ok_threshold |-> 6]]] }

\* internal marks around a market price of 100, on and next to every
\* threshold of CompareArgs
CompareMarks == {89, 90, 94, 95, 96, 97, 98, 99, 100, 101, 102, 103, 104, 105, 106, 107, 110, 111}

ComparePrices == {None, Num(0), Num(100), Num(50)}

CompareTickers == {S_AAPL, S_MSFT, <<"a","a","p","l">>}

CompareInit ==
    /\ equities = <<EqAAPL, EqMSFT, EqABC, EqABCD>>
    /\ thresholds = DefaultThresholds
    /\ normIn = NoCall /\ normLocals = NoCall /\ normOut = NoCall
    /\ omsArgs = NoCall /\ omsCfg = NoCall /\ omsIn = NoCall /\ omsOut = NoCall
    /\ priceCfg \in {MarketNormalizerInit(a, FALSE) : a \in CompareArgs}
    /\ cache = <<>>
    /\ now = 20
    /\ marketData = "base"
    /\ priceIn = NoCall /\ priceOut = NoCall /\ pricePrev = NoCall
    /\ fetchIn = NoCall /\ fetchOut = NoCall /\ fetchPrev = NoCall /\ pool = NoCall
    /\ cmpIn = NoCall /\ cmpOut = NoCall
    /\ deskCfg = NoCall /\ desk = NoCall

\* normalizer.compare_mark_to_market(internal_mark, market_price, ticker)
CompareCall(internal_mark, market_price, ticker) ==
    /\ cmpIn = NoCall
    /\ cmpIn' = [internal_mark |-> internal_mark, market_price |-> market_price,
                 ticker |-> ticker]
    /\ cmpOut' = CompareMarkToMarket(priceCfg, internal_mark, market_price, ticker)
    /\ UNCHANGED <<normVars, omsVars, deskVars, fetchVars, pool, priceCfg, cache, now, marketData,
                   priceIn, priceOut, pricePrev>>

\* the caller takes the dict; the call leaves nothing behind
CompareReturn ==
    /\ cmpIn # NoCall
    /\ cmpIn' = NoCall
    /\ cmpOut' = NoCall
    /\ UNCHANGED <<normVars, omsVars, deskVars, fetchVars, pool, priceCfg, cache, now, marketData,
                   priceIn, priceOut, pricePrev>>

CompareNext ==
    \/ (cmpIn = NoCall /\ \E internal_mark \in CompareMarks, market_price \in ComparePrices,
                              ticker \in CompareTickers :
                            CompareCall(internal_mark, market_price, ticker))
    \/ CompareReturn

SpecCompare == CompareInit /\ [][CompareNext]_vars

-----------------------------------------------------------------------------
(* Desk agent orchestrator: src/src/desk_agent/orchestrator.py,
   src/src/desk_agent/config.py *)

\* the largest retry_max of the model
MaxRetry == 2

\* the steps of run_scenario, in the order of its _step calls
DeskSteps == <<"normalize", "trade_qa", "pricing", "ticker", "market_context">>

\* DeskAgentOrchestrator.__init__: self.retry_cfg
RetryCfgs == [max : 0..MaxRetry, abort_after_retry : BOOLEAN]

DeskInit ==
    /\ equities = <<EqAAPL, EqMSFT, EqABC, EqABCD>>
    /\ thresholds = DefaultThresholds
    /\ normIn = NoCall /\ normLocals = NoCall /\ normOut = NoCall
    /\ omsArgs = NoCall /\ omsCfg = NoCall /\ omsIn = NoCall /\ omsOut = NoCall
    /\ priceCfg = NoCall /\ cache = <<>> /\ now = 0 /\ marketData = "base"
    /\ priceIn = NoCall /\ priceOut = NoCall /\ pricePrev = NoCall
    /\ fetchIn = NoCall /\ fetchOut = NoCall /\ fetchPrev = NoCall /\ pool = NoCall
    /\ cmpIn = NoCall /\ cmpOut = NoCall
    /\ deskCfg \in RetryCfgs
    /\ desk = NoCall

\* run_scenario up to its first _step: a scenario that does not validate
\* raises ValueError
RunScenario(valid) ==
    /\ desk = NoCall
    /\ desk' = [valid |-> valid, step |-> 1, attempts |-> 0,
                calls |-> [i \in 1..Len(DeskSteps) |-> 0],
                trace |-> <<>>, results |-> <<>>,
                status |-> IF valid THEN "running" ELSE "raised", errors |-> <<>>]
    /\ UNCHANGED <<normVars, omsVars, priceVars, deskCfg>>

\* a trace entry of _step
TraceEntry(name, status, attempts) ==
    [step |-> name, status |-> status, attempts |-> attempts]

\* _step after a failed attempt: the break, or the while condition failing
LoopEnds(cfg, attempts) ==
    \/ (attempts > cfg.max /\ cfg.abort_after_retry)
    \/ ~(attempts <= cfg.max)

\* the run after _step has returned result for the step in hand
NextStep(d, result) ==
    [d EXCEPT !.results = Append(d.results, result), !.step = d.step + 1,
              !.attempts = 0]

\* one round of the while loop of _step: fn is called and returns (ok) or
\* raises
Attempt(ok) ==
    /\ desk # NoCall
    /\ desk.status = "running"
    /\ desk.step <= Len(DeskSteps)
    /\ LET tried == [desk EXCEPT !.attempts = desk.attempts + 1,
                                 !.calls[desk.step] = desk.calls[desk.step] + 1]
       IN  IF ok
           THEN desk' = NextStep([tried EXCEPT !.trace =
                                     Append(desk.trace,
                                            TraceEntry(DeskSteps[desk.step], "OK",
                                                       tried.attempts))],
                                 "ok")
           ELSE IF LoopEnds(deskCfg, tried.attempts)
           THEN desk' = NextStep([tried EXCEPT !.trace =
                                     Append(desk.trace,
                                            TraceEntry(DeskSteps[desk.step], "ERROR",
                                                       tried.attempts))],
                                 "error")
           ELSE desk' = [tried EXCEPT !.trace =
                            Append(desk.trace,
                                   TraceEntry(DeskSteps[desk.step], "ERROR", tried.attempts))]
    /\ UNCHANGED <<normVars, omsVars, priceVars, deskCfg>>

\* run_scenario after its last _step: _summarize iterates trade_results and
\* calls r.get on each element, which raises AttributeError on the keys of
\* the dict {"error": ...} that _step returned for a failed trade_qa step;
\* otherwise the report is assembled, execution_metadata.errors being the
\* ERROR entries of the trace
Assemble ==
    /\ desk # NoCall
    /\ desk.status = "running"
    /\ desk.step > Len(DeskSteps)
    /\ desk' = IF desk.results[2] = "error"
               THEN [desk EXCEPT !.status = "raised"]
               ELSE [desk EXCEPT !.status = "returned",
                                 !.errors = SelectSeq(desk.trace,
                                                      LAMBDA t : t.status = "ERROR")]
    /\ UNCHANGED <<normVars, omsVars, priceVars, deskCfg>>

\* the caller has the report or the exception
DeskReturn ==
    /\ desk # NoCall
    /\ desk.status # "running"
    /\ desk' = NoCall
    /\ UNCHANGED <<normVars, omsVars, priceVars, deskCfg>>

DeskNext ==
    \/ \E valid \in BOOLEAN : RunScenario(valid)
    \/ \E ok \in BOOLEAN : Attempt(ok)
    \/ Assemble
    \/ DeskReturn

SpecDesk == DeskInit /\ [][DeskNext]_vars

-----------------------------------------------------------------------------
(* Properties of the Trade Validation Engine *)

OMSReturned == omsOut # NoCall

Severities(issues) == {issues[i].severity : i \in 1..Len(issues)}

\* C1: the status of a report is ERROR exactly when some issue has severity
\* ERROR, WARNING exactly when no issue has severity ERROR and some issue has
\* severity WARNING, and OK exactly when no issue has either severity.
C1_StatusRule ==
    OMSReturned =>
        LET sev == Severities(omsOut.issues)
        IN  /\ (omsOut.status = "ERROR") <=> ("ERROR" \in sev)
            /\ (omsOut.status = "WARNING") <=> ("ERROR" \notin sev /\ "WARNING" \in sev)
            /\ (omsOut.status = "OK") <=> ("ERROR" \notin sev /\ "WARNING" \notin sev)

\* a report with one ERROR issue and at least two WARNING issues, status ERROR
C1_Witness ==
    /\ OMSReturned
    /\ omsOut.status = "ERROR"
    /\ Cardinality({i \in 1..Len(omsOut.issues) : omsOut.issues[i].severity = "ERROR"}) = 1
    /\ Cardinality({i \in 1..Len(omsOut.issues) : omsOut.issues[i].severity = "WARNING"}) >= 2

\* C2: every run executes all seven checks (required fields, schema
\* validation, identifier, currency, price, counterparty, settlement), also
\* after the required-field check or the schema validation has reported an
\* ERROR.
C2_CollectAll ==
    OMSReturned => omsOut.ran = <<"required", "schema">> \o TradeChecks

\* C2, on the issues: a trade whose counterparty is a non-empty string outside
\* the approved list is reported a counterparty WARNING whatever else is
\* wrong with the trade.
C2_CounterpartyAlwaysChecked ==
    (/\ OMSReturned
     /\ omsIn.trade_json.kind \in {"dict", "json"}
     /\ omsIn.trade_json.fields.counterparty = Str(<<"X","X">>))
    => \E i \in 1..Len(omsOut.issues) : omsOut.issues[i].type = "counterparty"

\* What the code does instead: the five checks on the parsed Trade are
\* executed exactly when schema validation reported nothing.
C2_ChecksOnlyAfterValidSchema ==
    OMSReturned =>
        LET schemaFailed == \E i \in 1..Len(omsOut.issues) :
                                omsOut.issues[i].type = "schema_validation"
        IN  omsOut.ran = <<"required", "schema">> \o (IF schemaFailed THEN <<>> ELSE TradeChecks)

\* the field is missing for _check_required: no key, None, or ""
MissingValue(x) == x.t \in {"absent", "none"} \/ x = Str(<<>>)

\* the value has a type the field does not take: no string for ticker,
\* currency, counterparty and the dates, no number for quantity and price
WrongTyped(field, x) ==
    /\ x.t # "absent"
    /\ IF field \in {"quantity", "price"} THEN x.t # "num"
       ELSE x.t \notin {"str", "isodate"}

\* the report has an ERROR issue of this type on this field
HasError(issue_type, field) ==
    \E i \in 1..Len(omsOut.issues) :
        /\ omsOut.issues[i].type = issue_type
        /\ omsOut.issues[i].severity = "ERROR"
        /\ omsOut.issues[i].field = field

C16_WitnessDict ==
    /\ OMSReturned
    /\ omsIn.trade_json.kind = "dict"
    /\ omsIn.trade_json.fields.ticker = Num(7)
    /\ omsIn.trade_json.fields.quantity = None
    /\ HasError("schema_validation", "ticker")
    /\ HasError("missing_field", "quantity")

\* the issues of the report that the price check made
PriceIssues == SelectSeq(omsOut.issues, LAMBDA i : i.type = "price_tolerance")

\* the run got as far as the price check
PriceChecked ==
    OMSReturned /\ \E k \in 1..Len(omsOut.ran) : omsOut.ran[k] = "price"

\* C17: when the call to the Market Price Source fails, the price check
\* reports exactly one issue, a price_tolerance WARNING, and no ERROR, also
\* when a second call would have succeeded; a trade with no other issue then
\* has status WARNING.
C17_SourceFailureIsWarning ==
    (PriceChecked /\ ~omsIn.market.ok) =>
        /\ Len(PriceIssues) = 1
        /\ PriceIssues[1].severity = "WARNING"
        /\ PriceIssues[1].field = "price"
        /\ Len(omsOut.issues) = 1 => omsOut.status = "WARNING"

\* C17 happens: the source fails on a trade that has no other issue, and
\* would have answered a second call
C17_Witness ==
    /\ PriceChecked
    /\ omsIn.market = [ok |-> FALSE, then |-> 100]
    /\ Len(omsOut.issues) = 1
    /\ omsOut.status = "WARNING"

\* the price check reported exactly one issue, of this severity
OnePriceIssue(severity) == Len(PriceIssues) = 1 /\ PriceIssues[1].severity = severity

\* the trade's price deviates from the market price by more than pct
\* hundredths of the market price
PriceDeviatesMoreThan(pct) ==
    DeviatesMoreThan(omsIn.trade_json.fields.price.v, omsIn.market.price, pct)

\* the price check ran and the source returned a positive price
PricedAboveZero == PriceChecked /\ omsIn.market.ok /\ omsIn.market.price > 0

\* C18: with a positive market price and d = |trade.price - market.price| /
\* market.price, the price check reports exactly one ERROR if d > error,
\* exactly one WARNING if warning < d <= error, and nothing if d <= warning.
C18_ToleranceBands ==
    PricedAboveZero =>
        /\ PriceDeviatesMoreThan(omsCfg.thresholds.error) => OnePriceIssue("ERROR")
        /\ (/\ PriceDeviatesMoreThan(omsCfg.thresholds.warning)
            /\ ~PriceDeviatesMoreThan(omsCfg.thresholds.error)) => OnePriceIssue("WARNING")
        /\ ~PriceDeviatesMoreThan(omsCfg.thresholds.warning) => PriceIssues = <<>>

\* What the code does: the error threshold is looked at first, the warning
\* threshold only when d is not above it; this is C18 whenever warning <=
\* error.
C18_ErrorThenWarning ==
    PricedAboveZero =>
        /\ IF PriceDeviatesMoreThan(omsCfg.thresholds.error) THEN OnePriceIssue("ERROR")
           ELSE IF PriceDeviatesMoreThan(omsCfg.thresholds.warning)
           THEN OnePriceIssue("WARNING")
           ELSE PriceIssues = <<>>
        /\ omsCfg.thresholds.warning <= omsCfg.thresholds.error =>
              /\ PriceDeviatesMoreThan(omsCfg.thresholds.error) => OnePriceIssue("ERROR")
              /\ (/\ PriceDeviatesMoreThan(omsCfg.thresholds.warning)
                  /\ ~PriceDeviatesMoreThan(omsCfg.thresholds.error))
                    => OnePriceIssue("WARNING")
              /\ ~PriceDeviatesMoreThan(omsCfg.thresholds.warning) => PriceIssues = <<>>

\* the boundaries with the default thresholds: a deviation of exactly 0.05 is
\* a WARNING, one of exactly 0.02 is silent
C18_BoundariesReached ==
    /\ PricedAboveZero
    /\ omsCfg.thresholds = [warning |-> 2, error |-> 5]
    /\ omsIn.trade_json.fields.price = Num(105)
    /\ OnePriceIssue("WARNING")

\* the issues of the report that the settlement check made
SettlementIssues == SelectSeq(omsOut.issues, LAMBDA i : i.type = "settlement_date")

\* the run got as far as the settlement check, on a schema-valid trade
SettlementChecked ==
    OMSReturned /\ \E k \in 1..Len(omsOut.ran) : omsOut.ran[k] = "settlement"

RECURSIVE AddBusinessDays(_, _)
\* the n-th business day (Monday to Friday) after a day
AddBusinessDays(day, n) ==
    IF n = 0 THEN day
    ELSE IF Weekday(day + 1) >= 5 THEN AddBusinessDays(day + 1, n)
    ELSE AddBusinessDays(day + 1, n - 1)

\* C19: the settlement check counts the T+N window in business days: ERROR
\* when the settlement date is before the trade date, on a Saturday or
\* Sunday, or earlier than N business days after the trade date; WARNING
\* when it is more than one business day after that day; nothing when it is
\* a weekday exactly N business days after the trade date.
C19_BusinessDayWindow ==
    SettlementChecked =>
        LET trade_dt == omsIn.trade_json.fields.trade_dt.day
            settle_dt == omsIn.trade_json.fields.settle_dt.day
            due == AddBusinessDays(trade_dt, omsCfg.settlement_days)
            errors == \E i \in 1..Len(SettlementIssues) :
                          SettlementIssues[i].severity = "ERROR"
            warns == \E i \in 1..Len(SettlementIssues) :
                          SettlementIssues[i].severity = "WARNING"
        IN  /\ errors <=> (\/ settle_dt < trade_dt
                           \/ Weekday(settle_dt) >= 5
                           \/ settle_dt < due)
            /\ settle_dt > AddBusinessDays(due, 1) => warns
            /\ (settle_dt = due /\ Weekday(settle_dt) < 5) => SettlementIssues = <<>>

\* What the code does: the window is counted in calendar days, ERROR when
\* settle_dt - trade_dt < N, WARNING when settle_dt - trade_dt > N + 1.
C19_CalendarDayWindow ==
    SettlementChecked =>
        LET delta_days == omsIn.trade_json.fields.settle_dt.day
                              - omsIn.trade_json.fields.trade_dt.day
            has(severity, message) ==
                \E i \in 1..Len(SettlementIssues) :
                    /\ SettlementIssues[i].severity = severity
                    /\ SettlementIssues[i].message = message
        IN  /\ has("ERROR", "Settlement earlier than expected")
                  <=> delta_days < omsCfg.settlement_days
            /\ has("WARNING", "Non-standard settlement interval")
                  <=> delta_days > omsCfg.settlement_days + 1
            /\ has("ERROR", "Settlement on weekend")
                  <=> Weekday(omsIn.trade_json.fields.settle_dt.day) >= 5
            /\ has("ERROR", "Settlement before trade date") <=> delta_days < 0

\* the example of C19: a trade on a Thursday settling the Monday after, N = 2,
\* gets the WARNING of a non-standard interval
C19_ThursdayToMonday ==
    /\ SettlementChecked
    /\ omsCfg.settlement_days = 2
    /\ omsIn.trade_json.fields.trade_dt = IsoDate(3)
    /\ omsIn.trade_json.fields.settle_dt = IsoDate(7)
    /\ Len(SettlementIssues) = 1
    /\ SettlementIssues[1].severity = "WARNING"

\* the run got as far as the counterparty check, on a counterparty that is
\* not empty
CounterpartyChecked ==
    /\ OMSReturned
    /\ \E k \in 1..Len(omsOut.ran) : omsOut.ran[k] = "counterparty"
    /\ omsIn.trade_json.fields.counterparty # Str(<<>>)

\* the report has the counterparty WARNING
CounterpartyWarned ==
    \E i \in 1..Len(omsOut.issues) :
        omsOut.issues[i].type = "counterparty" /\ omsOut.issues[i].severity = "WARNING"

\* C20: the counterparty check ignores letter case, for the default approved
\* set and for one given to the constructor: the WARNING is reported iff no
\* member of the approved set equals the trade's counterparty up to case.
C20_CaseInsensitive ==
    CounterpartyChecked =>
        (CounterpartyWarned <=>
            ~\E member \in omsCfg.valid_counterparties :
                Upper(member) = Upper(omsIn.trade_json.fields.counterparty.v))

\* What the code does: the trade's counterparty is stripped and upper-cased
\* and looked up in the approved set as it was given; this ignores case
\* when every member of the set is in upper case, as in the default set.
C20_UpperCasedLookup ==
    CounterpartyChecked =>
        /\ CounterpartyWarned <=>
              Upper(Strip(omsIn.trade_json.fields.counterparty.v))
                  \notin omsCfg.valid_counterparties
        /\ (\A member \in omsCfg.valid_counterparties : member = Upper(member)) =>
              (CounterpartyWarned <=>
                  ~\E member \in omsCfg.valid_counterparties :
                      Upper(member) = Upper(omsIn.trade_json.fields.counterparty.v))

\* an agent constructed with the approved set {"ms"} warns about the
\* counterparty "ms"
C20_LowerCaseSetNeverMatches ==
    /\ CounterpartyChecked
    /\ omsCfg.valid_counterparties = {<<"m","s">>}
    /\ omsIn.trade_json.fields.counterparty = Str(<<"m","s">>)
    /\ CounterpartyWarned

\* the identifier_mismatch issues of the report
IdentifierReported ==
    SelectSeq(omsOut.issues, LAMBDA i : i.type = "identifier_mismatch")

\* the run got as far as the identifier check
IdentifierChecked ==
    /\ OMSReturned
    /\ \E k \in 1..Len(omsOut.ran) : omsOut.ran[k] = "identifier"

\* the ticker of the Trade the checks are run on
TradeTicker == Upper(Strip(omsIn.trade_json.fields.ticker.v))

\* the issues the identifier check owes for what normalize(ticker, top_k=3)
\* returned
IdentifierAsStated(r, reported) ==
    ~r.raised =>
        IF r.results = <<>>
        THEN /\ Len(reported) = 1
             /\ reported[1].severity = "ERROR"
        ELSE /\ \A k \in 1..Len(reported) : reported[k].severity = "WARNING"
             /\ (\E k \in 1..Len(reported) : reported[k].message = "Ticker ambiguous")
                    <=> r.results[1].ambiguous
             /\ (\E k \in 1..Len(reported) : reported[k].message = "Low-confidence match")
                    <=> r.results[1].confidence < 90
             /\ Len(reported) = (IF r.results[1].ambiguous THEN 1 ELSE 0)
                                 + (IF r.results[1].confidence < 90 THEN 1 ELSE 0)

\* C21: the identifier check reports one identifier_mismatch ERROR and
\* nothing else when normalize(ticker, top_k=3) returns no result; otherwise
\* one WARNING iff the top result is ambiguous and one more WARNING iff its
\* confidence is below 0.9, each independently of the other, and nothing
\* when the top result is neither.
C21_IdentifierIssues ==
    IdentifierChecked =>
        IdentifierAsStated(Normalize(equities, thresholds, TradeTicker, 3),
                           IdentifierReported)

\* the two warnings of a run, as a pair of booleans
IdentifierWarnings ==
    <<\E k \in 1..Len(IdentifierReported) :
          IdentifierReported[k].message = "Ticker ambiguous",
      \E k \in 1..Len(IdentifierReported) :
          IdentifierReported[k].message = "Low-confidence match">>

\* a run with both warnings
C21_Witness ==
    IdentifierChecked /\ IdentifierWarnings = <<TRUE, TRUE>>

\* runs with the ambiguity warning alone, the low-confidence warning alone,
\* no identifier issue, and the ERROR of an unknown ticker
C21_WitnessAmbiguousAlone ==
    IdentifierChecked /\ IdentifierWarnings = <<TRUE, FALSE>>

C21_WitnessLowAlone ==
    IdentifierChecked /\ IdentifierWarnings = <<FALSE, TRUE>>

C21_WitnessNone ==
    IdentifierChecked /\ TradeTicker = S_ABCD /\ IdentifierReported = <<>>

C21_WitnessUnknown ==
    /\ IdentifierChecked /\ TradeTicker = <<"Z","Z","Z">>
    /\ Len(IdentifierReported) = 1 /\ IdentifierReported[1].message = "Ticker not recognized"

\* C30: over a NormalizerAgent with the default thresholds the "Ticker
\* ambiguous" WARNING never comes alone: a run that reports it reports the
\* "Low-confidence match" WARNING as well.
C30_AmbiguousImpliesLowConfidence ==
    (IdentifierChecked /\ thresholds = DefaultThresholds) =>
        (IdentifierWarnings[1] => IdentifierWarnings[2])

\* a run over the default thresholds that reports both warnings, and one
\* whose top result, at 0.9 with a runner-up in the window, is not flagged
C30_Witness ==
    /\ IdentifierChecked /\ thresholds = DefaultThresholds
    /\ IdentifierWarnings = <<TRUE, TRUE>>

C30_WitnessNotFlagged ==
    /\ IdentifierChecked /\ thresholds = DefaultThresholds
    /\ TradeTicker = S_ABCD /\ equities[1] = EqAAPL
    /\ IdentifierReported = <<>>

\* the window the caller asked for: the settlement_days argument, or 2 when
\* none was passed
WindowAskedFor ==
    IF omsArgs.settlement_days = None THEN 2 ELSE omsArgs.settlement_days.v

\* C25: the expected settlement window N of an agent is the value passed to
\* the constructor, for every N >= 0 including 0; the default 2 applies only
\* when no value is passed.
C25_WindowIsCallersN ==
    omsCfg # NoCall => omsCfg.settlement_days = WindowAskedFor

\* What the code does: `settlement_days or default` takes the default also
\* for the argument 0
C25_ZeroTakesDefault ==
    omsCfg # NoCall =>
        omsCfg.settlement_days =
            IF omsArgs.settlement_days = None \/ omsArgs.settlement_days = Num(0)
            THEN 2 ELSE omsArgs.settlement_days.v

\* an agent constructed with settlement_days = 0 reports a same-day
\* settlement as earlier than expected
C25_SameDayRejected ==
    /\ SettlementChecked
    /\ omsArgs.settlement_days = Num(0)
    /\ omsIn.trade_json.fields.trade_dt = omsIn.trade_json.fields.settle_dt
    /\ \E i \in 1..Len(SettlementIssues) : SettlementIssues[i].severity = "ERROR"

\* an agent constructed with settlement_days = 1 accepts a next-day
\* settlement
C25_NextDayAccepted ==
    /\ SettlementChecked
    /\ omsArgs.settlement_days = Num(1)
    /\ omsIn.trade_json.fields.trade_dt = IsoDate(2)
    /\ omsIn.trade_json.fields.settle_dt = IsoDate(3)
    /\ SettlementIssues = <<>>

-----------------------------------------------------------------------------
(* Properties of the Mark Classification Engine *)

EnrichReturned == priceIn # NoCall /\ ~priceOut.raised

\* as_of_date is more than stale_days days before the date of the call
OlderThanStaleDays(mark) ==
    Today(priceIn.now) - mark.as_of_date.day > priceCfg.tolerances.stale_days

\* the fetch of result i was made and failed
FetchFailed(i) == priceOut.paths[i].fetched /\ priceOut.results[i].error # None

\* the class of the deviation of a mark from a positive market price
DeviationClass(mark) ==
    LET t == ResolveThresholds(priceCfg, mark.ticker)
    IN  IF DeviatesMoreThan(mark.internal_mark, mark.market_price.v, t.review_th)
        THEN "OUT_OF_TOLERANCE"
        ELSE IF DeviatesMoreThan(mark.internal_mark, mark.market_price.v, t.ok_th)
        THEN "REVIEW_NEEDED"
        ELSE "OK"

\* C3 as stated: NO_MARKET_DATA whenever the fetch failed; otherwise
\* STALE_MARK whenever the mark is older than stale_days; otherwise the class
\* the comparison with the market price gave.
C3_PrecedenceAsStated ==
    EnrichReturned =>
        \A i \in 1..Len(priceOut.results) :
            LET m == priceOut.results[i]
            IN  m.classification =
                    IF FetchFailed(i) THEN "NO_MARKET_DATA"
                    ELSE IF OlderThanStaleDays(m) THEN "STALE_MARK"
                    ELSE CompareMarkToMarket(priceCfg, m.internal_mark, m.market_price,
                                             m.ticker).classification

\* C3: for every mark that parses the classification is NO_MARKET_DATA
\* whenever no positive market price was obtained (the refmaster rejected the
\* ticker, the fetch failed, or the fetched price is 0), stale or not;
\* otherwise STALE_MARK whenever the mark is older than stale_days; otherwise
\* the class of the deviation, OK, REVIEW_NEEDED or OUT_OF_TOLERANCE.
C3_Precedence ==
    EnrichReturned =>
        \A i \in 1..Len(priceOut.results) :
            LET m == priceOut.results[i]
                noPrice == \/ priceOut.paths[i].rejected
                           \/ FetchFailed(i)
                           \/ m.market_price = Num(0)
            IN  /\ noPrice <=> (m.market_price = None \/ m.market_price = Num(0))
                /\ m.classification =
                        IF noPrice THEN "NO_MARKET_DATA"
                        ELSE IF OlderThanStaleDays(m) THEN "STALE_MARK"
                        ELSE DeviationClass(m)

\* a batch with a stale mark whose fetch failed, NO_MARKET_DATA, and a stale
\* mark whose fetch gave a positive price, STALE_MARK
C3_Witness ==
    /\ EnrichReturned
    /\ \E i, j \in 1..Len(priceOut.results) :
        /\ FetchFailed(i) /\ OlderThanStaleDays(priceOut.results[i])
        /\ priceOut.results[i].classification = "NO_MARKET_DATA"
        /\ ~FetchFailed(j) /\ OlderThanStaleDays(priceOut.results[j])
        /\ priceOut.results[j].market_price \notin {None, Num(0)}
        /\ priceOut.results[j].classification = "STALE_MARK"

\* C4: a malformed mark in a batch is rejected for that record only: the call
\* does not raise, and every mark of the batch that parses gets its
\* EnrichedMark.
C4_MalformedRejectedPerRecord ==
    priceIn # NoCall =>
        /\ ~priceOut.raised
        /\ Len(priceOut.results) =
              Cardinality({i \in 1..Len(priceIn.marks) : ParseMark(priceIn.marks[i]).ok})

\* What the code does instead: the call raises exactly when some mark of the
\* batch does not parse, and then returns no result at all.
C4_WholeBatchAborts ==
    priceIn # NoCall =>
        /\ priceOut.raised <=> \E i \in 1..Len(priceIn.marks) : ~ParseMark(priceIn.marks[i]).ok
        /\ priceOut.raised => priceOut.results = <<>>
        /\ ~priceOut.raised => Len(priceOut.results) = Len(priceIn.marks)

\* the second run of a batch found every price it needed in the cache, with
\* the source's data and the date as they were at the first run, and no fetch
\* of the first run had failed
WarmRerun ==
    /\ pricePrev # NoCall
    /\ ~pricePrev.out.raised
    /\ pricePrev.market = priceIn.market
    /\ Today(pricePrev.now) = Today(priceIn.now)
    /\ priceOut.calls = 0
    /\ \A i \in 1..Len(pricePrev.out.results) :
          pricePrev.out.paths[i].fetched => pricePrev.out.results[i].error = None

\* C5: a second enrich_marks call on the same instance with the same marks,
\* on a warm cache and with market data and current date unchanged, returns
\* EnrichedMarks identical field for field to those of the first call.
C5_IdempotentWarmCache ==
    WarmRerun => priceOut.results = pricePrev.out.results

WithoutTimestamp(results) ==
    [i \in 1..Len(results) |-> [results[i] EXCEPT !.fetch_timestamp = None]]

\* What the code does instead: the two calls agree on every field but
\* fetch_timestamp, which is the time of the call even when nothing is fetched.
C5_IdenticalButTimestamp ==
    WarmRerun =>
        /\ WithoutTimestamp(priceOut.results) = WithoutTimestamp(pricePrev.out.results)
        /\ \A i \in 1..Len(priceOut.results) :
              priceOut.paths[i].fetched =>
                  priceOut.results[i].fetch_timestamp = Num(priceIn.now)

\* C27: an EnrichedMark of enrich_marks is NO_MARKET_DATA if and only if its
\* error field is not null, whatever the source did, a fetched market price
\* of 0 included.
C27_NoMarketDataIffError ==
    EnrichReturned =>
        \A i \in 1..Len(priceOut.results) :
            priceOut.results[i].classification = "NO_MARKET_DATA"
                <=> priceOut.results[i].error # None

\* What the code does: an error always gives NO_MARKET_DATA, and the only
\* NO_MARKET_DATA without an error is that of a fetched market price of 0
C27_ErrorImpliesNoMarketData ==
    EnrichReturned =>
        \A i \in 1..Len(priceOut.results) :
            /\ priceOut.results[i].error # None
                  => priceOut.results[i].classification = "NO_MARKET_DATA"
            /\ (priceOut.results[i].classification = "NO_MARKET_DATA"
                    /\ priceOut.results[i].error = None)
                  => priceOut.results[i].market_price = Num(0)

\* a mark whose fetch succeeded with the price 0: NO_MARKET_DATA and no error
C27_ZeroPriceWithoutError ==
    /\ EnrichReturned
    /\ \E i \in 1..Len(priceOut.results) :
          /\ priceOut.paths[i].fetched
          /\ priceOut.results[i].market_price = Num(0)
          /\ priceOut.results[i].classification = "NO_MARKET_DATA"
          /\ priceOut.results[i].error = None

\* what the refmaster answers for the ticker of result i
RefmasterRejects(i) ==
    \/ Normalize(equities, thresholds, priceOut.results[i].ticker, 1).raised
    \/ Normalize(equities, thresholds, priceOut.results[i].ticker, 1).results = <<>>

\* result i is the rejection of an unknown ticker and no call of the source
\* was made for it
RejectedUnfetched(i) ==
    /\ priceOut.paths[i].rejected
    /\ ~priceOut.paths[i].fetched
    /\ priceOut.paths[i].calls = 0
    /\ priceOut.results[i].classification = "NO_MARKET_DATA"
    /\ priceOut.results[i].error = Str("unknown_ticker")
    /\ priceOut.results[i].market_price = None
    /\ priceOut.results[i].deviation_absolute = None
    /\ priceOut.results[i].deviation_percentage = None

\* every mark of the batch the refmaster does not match is rejected unfetched
RejectsBeforeFetch ==
    EnrichReturned =>
        \A i \in 1..Len(priceOut.results) :
            (priceCfg.refmaster /\ RefmasterRejects(i)) => RejectedUnfetched(i)

\* a batch changes the cache only by adding the keys of marks that were not
\* rejected
RejectedLeaveCache ==
    (priceIn' # NoCall /\ ~priceOut'.raised) =>
        /\ \A k \in DOMAIN cache : k \in DOMAIN cache' /\ cache'[k] = cache[k]
        /\ \A k \in DOMAIN cache' \ DOMAIN cache :
              \E i \in 1..Len(priceOut'.results) :
                  /\ ~priceOut'.paths[i].rejected
                  /\ k = CacheKeyOf(priceOut'.results[i])

\* C24: a mark whose ticker the refmaster does not match, or on which the
\* refmaster raises, is rejected before any fetch: no call of the source is
\* made for it, the cache is left as it was, and its result is
\* NO_MARKET_DATA with error unknown_ticker and null price and deviations.
C24_RejectedBeforeFetch ==
    []RejectsBeforeFetch /\ [][RejectedLeaveCache]_vars

\* a batch of an unknown ticker only, run on a cache that holds an entry:
\* no call of the source
C24_Witness ==
    /\ EnrichReturned
    /\ Len(priceOut.results) = 1
    /\ priceOut.results[1].ticker = S_ZZZ
    /\ RejectedUnfetched(1)
    /\ priceOut.calls = 0
    /\ cache # <<>>

\* a mark rejected because the refmaster raised
C24_WitnessRefmasterRaised ==
    /\ EnrichReturned
    /\ \E i \in 1..Len(priceOut.results) :
          /\ Normalize(equities, thresholds, priceOut.results[i].ticker, 1).raised
          /\ RejectedUnfetched(i)

-----------------------------------------------------------------------------
(* Properties of compare_mark_to_market                                    *)

\* a compare_mark_to_market call on a positive market price has returned
ComparedAboveZero ==
    /\ cmpIn # NoCall
    /\ cmpIn.market_price # None
    /\ cmpIn.market_price.v > 0

\* the threshold `name` for the ticker: the field of the ticker's entry in
\* the override table if the entry exists and has the field, else the
\* global value
ThresholdFor(name, ticker) ==
    LET table == priceCfg.tolerances.instrument_overrides
    IN  IF ticker \in DOMAIN table /\ name \in DOMAIN table[ticker]
        THEN table[ticker][name]
        ELSE priceCfg.tolerances[name]

\* |internal_mark - market_price| / market_price > pct / 100
RatioAbove(pct) ==
    100 * Abs(cmpIn.internal_mark - cmpIn.market_price.v) > pct * cmpIn.market_price.v

\* the instance without the override entries of the other tickers
WithoutOtherOverrides(cfg, ticker) ==
    [cfg EXCEPT !.tolerances.instrument_overrides =
        [t \in DOMAIN cfg.tolerances.instrument_overrides \cap {ticker} |->
            cfg.tolerances.instrument_overrides[t]]]

\* the classification does not depend on the entries of other tickers
OwnOverrideOnly ==
    cmpOut.classification =
        CompareMarkToMarket(WithoutOtherOverrides(priceCfg, cmpIn.ticker), cmpIn.internal_mark,
                            cmpIn.market_price, cmpIn.ticker).classification

\* C23: for a positive market price the classification follows the
\* thresholds resolved for the ticker (override entry first, global value for
\* a field the entry lacks or when there is no entry): OUT_OF_TOLERANCE iff
\* the ratio is above review_threshold, REVIEW_NEEDED iff it is above
\* ok_threshold and not above review_threshold, OK iff it is not above
\* ok_threshold; entries of other tickers have no effect.
C23_ResolvedThresholdBands ==
    ComparedAboveZero =>
        /\ cmpOut.classification = "OUT_OF_TOLERANCE"
              <=> RatioAbove(ThresholdFor("review_threshold", cmpIn.ticker))
        /\ cmpOut.classification = "REVIEW_NEEDED"
              <=> /\ RatioAbove(ThresholdFor("ok_threshold", cmpIn.ticker))
                  /\ ~RatioAbove(ThresholdFor("review_threshold", cmpIn.ticker))
        /\ cmpOut.classification = "OK"
              <=> ~RatioAbove(ThresholdFor("ok_threshold", cmpIn.ticker))
        /\ OwnOverrideOnly

\* What the code does: the review threshold is tested first, then the ok
\* threshold; the two statements agree when ok_threshold <= review_threshold
C23_ReviewThenOk ==
    ComparedAboveZero =>
        /\ cmpOut.classification =
              IF RatioAbove(ThresholdFor("review_threshold", cmpIn.ticker))
              THEN "OUT_OF_TOLERANCE"
              ELSE IF RatioAbove(ThresholdFor("ok_threshold", cmpIn.ticker))
              THEN "REVIEW_NEEDED"
              ELSE "OK"
        /\ OwnOverrideOnly

\* AAPL at 103 against 100 is OK under its override ok_threshold = 0.04
\* with the global review_threshold
C23_OverrideApplied ==
    /\ ComparedAboveZero
    /\ cmpIn.ticker = S_AAPL /\ cmpIn.internal_mark = 103 /\ cmpIn.market_price = Num(100)
    /\ ThresholdFor("ok_threshold", S_AAPL) = 4
    /\ ThresholdFor("review_threshold", S_AAPL) = 5
    /\ cmpOut.classification = "OK"

\* and MSFT at 103 stays REVIEW_NEEDED on the same instance
C23_OtherTickerUnchanged ==
    /\ ComparedAboveZero
    /\ cmpIn.ticker = S_MSFT /\ cmpIn.internal_mark = 103 /\ cmpIn.market_price = Num(100)
    /\ S_AAPL \in DOMAIN priceCfg.tolerances.instrument_overrides
    /\ cmpOut.classification = "REVIEW_NEEDED"

-----------------------------------------------------------------------------
(* Properties of the price fetch and its cache                             *)

\* a fetch_market_price call has been made
FetchReturned == fetchIn # NoCall

\* the cache key of a fetch
CacheKey(ticker, as_of_date) == <<Upper(ticker), as_of_date>>

\* the calls, among the first retries + 1 of a fetch, on which the source
\* answers: the first `entry` calls hit the outage, the later ones get what
\* the source has on the ticker
AnsweredCalls(retries, entry, mkt, ticker, day) ==
    {n \in 1..(retries + 1) : n > entry /\ GetPriceSnapshot(mkt, ticker, day).ok}

\* the fetch made `calls` calls and got `price` and `error` as C12 says: all
\* retries + 1 calls and an error when the source answers none of them, else
\* as many calls as it takes to the first answer, and that answer's price
BoundedRetries(retries, entry, mkt, ticker, day, calls, price, error) ==
    LET answered == AnsweredCalls(retries, entry, mkt, ticker, day)
    IN  IF answered = {}
        THEN calls = retries + 1 /\ price = None /\ error # None
        ELSE /\ calls = CHOOSE k \in answered : \A n \in answered : k <= n
             /\ price = Num(GetPriceSnapshot(mkt, ticker, day).price)
             /\ error = None

\* C12: on a cache miss the source is called at most retry_count + 1 times:
\* exactly retry_count + 1 times, with an error result, when it fails on all
\* of them, and enrichment then classifies NO_MARKET_DATA with the error
\* recorded; exactly k times, with the price of call k, when call k is the
\* first to succeed.
C12_BoundedRetries ==
    /\ (/\ FetchReturned
        /\ fetchIn.as_of_date.t = "isodate"
        /\ CacheKey(fetchIn.ticker, fetchIn.as_of_date) \notin DOMAIN fetchIn.before)
       => BoundedRetries(priceCfg.tolerances.retry_count, fetchIn.outage, fetchIn.market,
                         fetchIn.ticker, fetchIn.as_of_date.day, fetchOut.calls,
                         fetchOut.result.price, fetchOut.result.error)
    /\ (priceIn # NoCall /\ ~priceOut.raised) =>
          \A i \in 1..Len(priceOut.results) :
              (priceOut.paths[i].fetched /\ ~priceOut.paths[i].hit) =>
                  /\ BoundedRetries(priceCfg.tolerances.retry_count,
                                    priceOut.paths[i].entry, priceIn.market,
                                    priceOut.results[i].ticker,
                                    priceOut.results[i].as_of_date.day,
                                    priceOut.paths[i].calls,
                                    priceOut.results[i].market_price,
                                    priceOut.results[i].error)
                  /\ priceOut.results[i].error # None =>
                        /\ priceOut.results[i].classification = "NO_MARKET_DATA"
                        /\ priceOut.results[i].error
                              \in {Str("network_error"), Str("ticker_not_found")}

\* C12 happens: with retry_count = 1 a source in an outage is called twice
\* and the second call's price is returned
C12_Witness ==
    /\ FetchReturned
    /\ priceCfg.tolerances.retry_count = 1
    /\ fetchIn.outage = 1
    /\ fetchOut.calls = 2
    /\ fetchOut.result.price = Num(100)

\* C12 happens: with retry_count = 1 a source that fails on every call is
\* called twice and the fetch returns an error
C12_WitnessExhausted ==
    /\ FetchReturned
    /\ priceCfg.tolerances.retry_count = 1
    /\ fetchOut.calls = 2
    /\ fetchOut.result.error = Str("ticker_not_found")

\* the data the source has had so far
MarketHistory == IF marketData = "base" THEN {"base"} ELSE {"base", "revised"}

\* every entry of the cache is keyed by an upper-cased ticker and a date and
\* holds, with no error, a price and date the source has returned for it
CacheHoldsSuccesses ==
    \A k \in DOMAIN cache :
        /\ k[1] = Upper(k[1])
        /\ k[2].t = "isodate"
        /\ cache[k].error = None
        /\ \E m \in MarketHistory :
              /\ GetPriceSnapshot(m, k[1], k[2].day).ok
              /\ cache[k].price = Num(GetPriceSnapshot(m, k[1], k[2].day).price)
              /\ cache[k].date = GetPriceSnapshot(m, k[1], k[2].day).date

\* a fetch that returned an error left the cache as it was, and so did a
\* batch whose every fetch returned an error
FailureLeavesCache ==
    /\ (FetchReturned /\ fetchOut.result.error # None) => cache = fetchIn.before
    /\ (/\ priceIn # NoCall /\ ~priceOut.raised /\ pricePrev = NoCall
        /\ \A i \in 1..Len(priceOut.results) : priceOut.results[i].error # None)
       => \A i \in 1..Len(priceOut.results) :
             CacheKey(priceOut.results[i].ticker, priceOut.results[i].as_of_date)
                \notin DOMAIN cache

\* the fetch in hand repeats one that returned an error
RepeatsFailedFetch ==
    FetchReturned /\ fetchPrev # NoCall /\ fetchPrev.out.result.error # None

\* C13 as stated: the cache holds only successful results under their
\* (upper-cased ticker, date) key; a fetch that fails or is given an invalid
\* date leaves the cache unchanged, and a later fetch of the same key calls
\* the source again.
C13_CacheOnlySuccessesAsStated ==
    /\ CacheHoldsSuccesses
    /\ FailureLeavesCache
    /\ RepeatsFailedFetch => fetchOut.calls >= 1

\* C13, amended: the cache holds only successful results under their
\* (upper-cased ticker, date) key; a fetch that fails or is given an invalid
\* date leaves the cache unchanged, so a later fetch of the same key is not
\* answered from the cache: with a valid date it calls the source again, with
\* an invalid date it returns the invalid_date error again without any call
\* of the source.
C13_CacheOnlySuccesses ==
    /\ CacheHoldsSuccesses
    /\ FailureLeavesCache
    /\ RepeatsFailedFetch =>
          IF fetchIn.as_of_date.t = "isodate"
          THEN fetchOut.calls >= 1
          ELSE fetchOut.calls = 0 /\ fetchOut.result.error = Str("invalid_date")

\* C13 happens: a fetch that failed in an outage is repeated, calls the
\* source again, and its price enters a cache that holds another key already
C13_Witness ==
    /\ RepeatsFailedFetch
    /\ fetchOut.calls >= 1
    /\ fetchOut.result.error = None
    /\ fetchIn.before # <<>>
    /\ Cardinality(DOMAIN cache) = Cardinality(DOMAIN fetchIn.before) + 1

\* C13 happens: a fetch with an invalid date is repeated
C13_WitnessInvalidDate ==
    RepeatsFailedFetch /\ fetchIn.as_of_date.t # "isodate"

\* a fetch_market_price call whose key was in the cache is answered from the
\* cache: no call of the source, the entry's price and date, the cache as
\* it was
AnsweredFromCache ==
    (FetchReturned /\ CacheKey(fetchIn.ticker, fetchIn.as_of_date) \in DOMAIN fetchIn.before)
      => /\ fetchOut.calls = 0
         /\ fetchOut.result = fetchIn.before[CacheKey(fetchIn.ticker, fetchIn.as_of_date)]
         /\ cache = fetchIn.before

\* within a batch, a mark whose key an earlier mark of the batch has fetched
\* successfully gets that price and date without a call of the source
SecondInBatchCached ==
    (priceIn # NoCall /\ ~priceOut.raised) =>
        \A i, j \in 1..Len(priceOut.results) :
            (/\ i < j
             /\ priceOut.paths[i].fetched /\ priceOut.results[i].error = None
             /\ priceOut.paths[j].fetched
             /\ CacheKeyOf(priceOut.results[i]) = CacheKeyOf(priceOut.results[j]))
            => /\ priceOut.paths[j].calls = 0
               /\ priceOut.results[j].market_price = priceOut.results[i].market_price
               /\ priceOut.results[j].market_data_date = priceOut.results[i].market_data_date

\* a step never removes or replaces a cache entry, and an enrich_marks call
\* answers every fetch whose key is in the cache with the entry's price and
\* date, without a call of the source
CacheEntriesKept ==
    /\ \A k \in DOMAIN cache : k \in DOMAIN cache' /\ cache'[k] = cache[k]
    /\ (priceIn = NoCall /\ priceIn' # NoCall /\ ~priceOut'.raised) =>
          \A i \in 1..Len(priceOut'.results) :
              (priceOut'.paths[i].fetched /\ CacheKeyOf(priceOut'.results[i]) \in DOMAIN cache)
              => /\ priceOut'.paths[i].calls = 0
                 /\ priceOut'.results[i].market_price
                        = cache[CacheKeyOf(priceOut'.results[i])].price
                 /\ priceOut'.results[i].market_data_date
                        = cache[CacheKeyOf(priceOut'.results[i])].date

\* C28: with max_workers = 1, after a fetch for a (ticker, date) key has
\* succeeded every later fetch for the key, in the same or a later
\* enrich_marks call and in any letter case of the ticker, returns the cached
\* price and date without a call of the source; a cached entry is never
\* removed or replaced.
C28_CachedAfterFirstSuccess ==
    /\ [](priceCfg.tolerances.max_workers = 1 => (AnsweredFromCache /\ SecondInBatchCached))
    /\ [][priceCfg.tolerances.max_workers = 1 => CacheEntriesKept]_vars

\* a fetch of "aapl" after the source has revised its data, answered with
\* the price cached for AAPL before the revision
C28_Witness ==
    /\ FetchReturned
    /\ fetchIn.ticker = <<"a","a","p","l">>
    /\ fetchIn.market = "revised"
    /\ CacheKey(fetchIn.ticker, fetchIn.as_of_date) \in DOMAIN fetchIn.before
    /\ fetchOut.calls = 0
    /\ fetchOut.result.price = Num(100)
    /\ GetPriceSnapshot("revised", S_AAPL, fetchIn.as_of_date.day).price # 100

\* a batch with the same key twice: one call of the source
C28_WitnessSameBatch ==
    /\ priceIn # NoCall /\ ~priceOut.raised
    /\ Len(priceOut.results) = 2
    /\ CacheKeyOf(priceOut.results[1]) = CacheKeyOf(priceOut.results[2])
    /\ priceOut.paths[1].calls = 1 /\ priceOut.paths[2].calls = 0
    /\ priceOut.paths[2].fetched

-----------------------------------------------------------------------------
(* Properties of concurrent batch enrichment                               *)

\* an enrich_marks call on the thread pool has ended
PoolReturned == pool # NoCall /\ pool.returned # NoCall

\* the fields of an EnrichedMark that C14 compares
Compared(r) ==
    [ticker |-> r.ticker, internal_mark |-> r.internal_mark,
     as_of_date |-> r.as_of_date, classification |-> r.classification,
     market_price |-> r.market_price, deviation_absolute |-> r.deviation_absolute,
     deviation_percentage |-> r.deviation_percentage, error |-> r.error]

\* the outcome `out` of the pool is the outcome `seq` of the sequential loop
\* on the same records: both raise, or both return one result per record, in
\* the records' order, equal in the compared fields
SameAsSequential(records, out, seq) ==
    /\ out.raised = seq.raised
    /\ ~out.raised =>
          /\ Len(out.results) = Len(records)
          /\ \A i \in 1..Len(records) :
                /\ out.results[i].ticker = ParseMark(records[i]).mark.ticker
                /\ out.results[i].internal_mark = ParseMark(records[i]).mark.internal_mark
                /\ out.results[i].as_of_date = records[i].as_of_date
                /\ Compared(out.results[i]) = Compared(seq.results[i])

Raced(i, j) ==
    /\ i # j
    /\ CacheKeyOf(pool.returned.results[i]) = CacheKeyOf(pool.returned.results[j])
    /\ \A l \in {i, j} : /\ pool.returned.paths[l].fetched
                          /\ ~pool.returned.paths[l].hit
                          /\ pool.returned.results[l].error = None

SourceValues(k) ==
    {[price |-> Num(GetPriceSnapshot(m, k[1], k[2].day).price),
      date |-> GetPriceSnapshot(m, k[1], k[2].day).date, error |-> None] :
        m \in {h \in MarketHistory : GetPriceSnapshot(h, k[1], k[2].day).ok}}

\* the results the workers of the run have put into the cache under key k,
\* or hold ready to put
Inserted(k) ==
    {[price |-> pool.futures[i].enriched.market_price,
      date |-> pool.futures[i].enriched.market_data_date, error |-> None] :
        i \in {j \in 1..Len(pool.records) :
                  /\ pool.futures[j] # Pending
                  /\ ~pool.futures[j].raised
                  /\ pool.futures[j].path.fetched /\ ~pool.futures[j].path.hit
                  /\ pool.futures[j].enriched.error = None
                  /\ CacheKeyOf(pool.futures[j].enriched) = k}}

\* C15: while workers race on the cache, every key has one entry, whose
\* value the source returned for that key; an entry that was there before the
\* batch is neither lost nor altered, an entry added by the batch holds what
\* one of the workers that fetched its key got from the source; and what a
\* worker reads from the cache is such a value, never an error.
C15_CacheToleratesRaces ==
    pool # NoCall =>
        /\ \A k \in DOMAIN cache :
              /\ k[1] = Upper(k[1]) /\ k[2].t = "isodate"
              /\ cache[k] \in SourceValues(k)
        /\ \A k \in DOMAIN pool.before :
              k \in DOMAIN cache /\ cache[k] = pool.before[k]
        /\ \A k \in DOMAIN cache \ DOMAIN pool.before : cache[k] \in Inserted(k)
        /\ \A i \in 1..Len(pool.records) :
              (/\ pool.futures[i] # Pending /\ ~pool.futures[i].raised
               /\ pool.futures[i].path.hit)
              => /\ pool.futures[i].enriched.error = None
                 /\ [price |-> pool.futures[i].enriched.market_price,
                     date |-> pool.futures[i].enriched.market_data_date,
                     error |-> None]
                       \in SourceValues(CacheKeyOf(pool.futures[i].enriched))

\* C15 happens: two workers missed on the same key, the source revised its
\* data between their fetches, both inserted, and the cache holds one entry
\* for the key beside an older entry of another key
C15_Witness ==
    /\ PoolReturned /\ ~pool.returned.raised
    /\ Len(pool.records) = 2
    /\ Raced(1, 2)
    /\ pool.returned.results[1].market_price # pool.returned.results[2].market_price
    /\ pool.before # <<>>
    /\ Cardinality(DOMAIN cache) = Cardinality(DOMAIN pool.before) + 1

\* every step of the pool leaves the entries of the cache as they are, but
\* for the key the stepping worker inserts
C15_OnlyOwnKeyWritten ==
    [][\A k \in DOMAIN cache :
          /\ k \in DOMAIN cache'
          /\ cache'[k] # cache[k] =>
                \E w \in Workers : /\ pool.work[w].pc = "insert"
                                    /\ CacheKeyOf(pool.work[w].mark) = k
                                    /\ cache'[k] = pool.work[w].result]_vars

-----------------------------------------------------------------------------
(* Properties of the desk agent orchestrator                               *)

\* the trace entries of step s
EntriesOf(s) == SelectSeq(desk.trace, LAMBDA t : t.step = DeskSteps[s])

\* _step has returned for step s
StepDone(s) == s <= Len(desk.results)

\* at most retry_max + 1 calls of a step function, one trace entry per call,
\* numbered from 1
OneEntryPerAttempt(s) ==
    /\ desk.calls[s] <= deskCfg.max + 1
    /\ Len(EntriesOf(s)) = desk.calls[s]
    /\ \A k \in 1..Len(EntriesOf(s)) : EntriesOf(s)[k].attempts = k

\* a step that succeeded on attempt k has k - 1 ERROR entries and then one
\* OK entry; a step that returned the error result was called retry_max + 1
\* times and has ERROR entries only; and _step does return after the
\* attempt retry_max + 1
StepOutcome(s) ==
    /\ (StepDone(s) /\ desk.results[s] = "ok") =>
          /\ desk.calls[s] >= 1
          /\ \A k \in 1..Len(EntriesOf(s)) :
                EntriesOf(s)[k].status = (IF k = Len(EntriesOf(s)) THEN "OK" ELSE "ERROR")
    /\ (StepDone(s) /\ desk.results[s] = "error") =>
          /\ desk.calls[s] = deskCfg.max + 1
          /\ \A k \in 1..Len(EntriesOf(s)) : EntriesOf(s)[k].status = "ERROR"
    /\ ~StepDone(s) =>
          /\ desk.calls[s] <= deskCfg.max
          /\ \A k \in 1..Len(EntriesOf(s)) : EntriesOf(s)[k].status = "ERROR"

\* run_scenario has ended on a scenario that validates
ScenarioEnded == desk # NoCall /\ desk.valid /\ desk.status # "running"

\* C26: _step calls a step function at most retry_max + 1 times with one
\* trace entry per attempt, numbered 1, 2, ...; success on attempt k leaves
\* k - 1 ERROR entries and one OK entry; a step failing on every attempt is
\* called exactly retry_max + 1 times and _step returns an error result;
\* the remaining steps still run and the report lists the failures under
\* execution_metadata.errors, for either value of abort_after_retry.
C26_RetriesThenReport ==
    (desk # NoCall /\ desk.valid) =>
        /\ \A s \in 1..Len(DeskSteps) : OneEntryPerAttempt(s) /\ StepOutcome(s)
        /\ ScenarioEnded =>
              /\ Len(desk.results) = Len(DeskSteps)
              /\ desk.status = "returned"
              /\ desk.errors = SelectSeq(desk.trace, LAMBDA t : t.status = "ERROR")

\* What the code does: the retries are as stated and every step is run, but
\* the report is returned only when the trade_qa step did not end with the
\* error result; when it did, run_scenario raises
C26_ReportUnlessTradeStepFailed ==
    (desk # NoCall /\ desk.valid) =>
        /\ \A s \in 1..Len(DeskSteps) : OneEntryPerAttempt(s) /\ StepOutcome(s)
        /\ ScenarioEnded =>
              /\ Len(desk.results) = Len(DeskSteps)
              /\ desk.status = "raised" <=> desk.results[2] = "error"
              /\ desk.status = "returned" =>
                    desk.errors = SelectSeq(desk.trace, LAMBDA t : t.status = "ERROR")

\* the pricing step failed retry_max + 1 times with abort_after_retry set,
\* the ticker step succeeded on its last attempt, and the report lists the
\* failures of both
C26_FailedPricingReported ==
    /\ ScenarioEnded /\ desk.status = "returned"
    /\ deskCfg = [max |-> 2, abort_after_retry |-> TRUE]
    /\ desk.results[3] = "error" /\ desk.calls[3] = 3
    /\ desk.results[4] = "ok" /\ desk.calls[4] = 3
    /\ Len(desk.errors) = 5

\* the trade_qa step failed on every attempt, the three steps after it were
\* run, and run_scenario raised
C26_FailedTradeStepRaises ==
    /\ ScenarioEnded /\ desk.status = "raised"
    /\ desk.results[2] = "error"
    /\ \A s \in 3..5 : desk.calls[s] >= 1

-----------------------------------------------------------------------------
(* Properties of the Identifier Normalizer                                 *)

\* a normalize call has been made and has returned a list
NormReturned == normIn # NoCall /\ ~normOut.raised

\* a normalize call has been made on a text that is not empty
NormScored == normIn # NoCall /\ normIn.text # <<>>

\* the stripped input of the call
NormInput == IF normIn = NoCall THEN <<>> ELSE normLocals.input_str

\* every candidate of the call with its confidence, before the reject test,
\* the ambiguity detection and the cut to top_k
FullRanking == IF normIn = NoCall THEN <<>> ELSE normLocals.scored

\* the ambiguity window, on the two best candidates of a full ranking
InAmbiguityWindow(full) ==
    /\ Len(full) > 1
    /\ full[1].confidence <= thresholds.ambiguous_high
    /\ full[2].confidence >= thresholds.ambiguous_low

\* C6: ambiguity is decided on the full ranking, the cut to top_k comes after:
\* inside the window every returned result at or above ambiguous_low is
\* flagged, also when top_k = 1 leaves the runner-up out; outside the window no
\* returned result is flagged.
C6_AmbiguityBeforeTruncation ==
    NormReturned =>
        LET res == normOut.results
            window == InAmbiguityWindow(FullRanking)
        IN  /\ window =>
                \A i \in 1..Len(res) :
                    res[i].confidence >= thresholds.ambiguous_low => res[i].ambiguous
            /\ ~window => \A i \in 1..Len(res) : ~res[i].ambiguous

\* C6 happens: top_k = 1 cut the runner-up that made the top result ambiguous
C6_Witness ==
    /\ NormReturned /\ normIn.top_k = 1
    /\ Len(normOut.results) = 1 /\ normOut.results[1].ambiguous
    /\ InAmbiguityWindow(FullRanking)

\* C7: no returned result with confidence above ambiguous_high is flagged
\* ambiguous, whatever the directory, the text and the thresholds.
C7_AboveHighNeverFlagged ==
    NormReturned =>
        \A i \in 1..Len(normOut.results) :
            normOut.results[i].confidence > thresholds.ambiguous_high
                => ~normOut.results[i].ambiguous

\* C7 happens: an exact match (1.0) on top with a runner-up at or above
\* ambiguous_low
C7_Witness ==
    /\ NormReturned /\ Len(normOut.results) >= 2
    /\ normOut.results[1].confidence = 100
    /\ normOut.results[2].confidence >= thresholds.ambiguous_low
    /\ ~normOut.results[1].ambiguous

\* the securities of the directory whose ISIN is the extracted one
IsinMatches(extracted) ==
    {i \in 1..Len(equities) :
        extracted.isin # <<>> /\ Upper(equities[i].isin) = extracted.isin}

\* C8 as stated: a security whose ISIN is in the text is scored 1.0 with
\* reasons ["isin_exact"], and with default thresholds it is returned first
\* and unflagged.
C8_IsinExactAsStated ==
    NormScored =>
        LET input == NormInput
            extracted == normLocals.extracted
        IN  \A i \in IsinMatches(extracted) :
                /\ \E k \in 1..Len(FullRanking) :
                      /\ FullRanking[k].equity = equities[i]
                      /\ FullRanking[k].confidence = 100
                      /\ FullRanking[k].reasons = <<"isin_exact">>
                /\ thresholds = DefaultThresholds =>
                      /\ normOut.results # <<>>
                      /\ normOut.results[1].equity = equities[i]
                      /\ ~normOut.results[1].ambiguous

\* C8, amended: a security whose ISIN is the one extracted from the text is
\* scored thresholds.exact (1.0 unless overridden) with reasons exactly
\* ["isin_exact"]; with default thresholds the first returned result is the
\* first such security of the directory, and every returned one of them has
\* confidence 1.0, these reasons, and is not flagged ambiguous, even if the
\* text also holds another security's symbol.
C8_IsinExact ==
    NormScored =>
        LET input == NormInput
            extracted == normLocals.extracted
            hits == IsinMatches(extracted)
            res == normOut.results
            isHit(k) == \E i \in hits : res[k].equity = equities[i]
        IN  hits # {} =>
            /\ \A i \in hits :
                  \E k \in 1..Len(FullRanking) :
                      /\ FullRanking[k].equity = equities[i]
                      /\ FullRanking[k].confidence = thresholds.exact
                      /\ FullRanking[k].reasons = <<"isin_exact">>
            /\ \A k \in 1..Len(res) :
                  isHit(k) => /\ res[k].confidence = thresholds.exact
                              /\ res[k].reasons = <<"isin_exact">>
            /\ thresholds = DefaultThresholds =>
                  /\ ~normOut.raised /\ res # <<>>
                  /\ res[1].equity
                        = equities[CHOOSE i \in hits : \A j \in hits : i <= j]
                  /\ \A k \in 1..Len(res) :
                        isHit(k) => res[k].confidence = 100 /\ ~res[k].ambiguous

\* C8 happens: the text holds the ISIN of one security and the symbol of
\* another, and both are returned
C8_Witness ==
    /\ NormReturned /\ thresholds = DefaultThresholds
    /\ Len(normOut.results) >= 2
    /\ normOut.results[1].reasons = <<"isin_exact">>
    /\ normOut.results[2].equity = EqMSFT
    /\ normLocals.extracted.symbol = S_MSFT

\* The precedence table of C9, with the confidences of the two short-circuit
\* rules as parameters
PrecedenceTable(eq, extracted, input_str, isinConf, idConf) ==
    LET isinx == extracted.isin # <<>> /\ Upper(eq.isin) = extracted.isin
        cusipx == extracted.cusip # <<>> /\ Upper(eq.cusip) = extracted.cusip
        cikx == extracted.cik # <<>> /\ Upper(eq.cik) = extracted.cik
        symx == extracted.symbol # <<>> /\ Upper(eq.symbol) = extracted.symbol
        exch == /\ extracted.exchange # <<>> /\ eq.exchange # <<>>
                /\ Contains(Upper(eq.exchange), extracted.exchange)
        ctry == extracted.country # <<>> /\ extracted.country = Upper(eq.country)
        intext == eq.symbol # <<>> /\ Contains(Upper(input_str), Upper(eq.symbol))
        fired == {0}
                 \cup (IF symx THEN {90} ELSE {})
                 \cup (IF symx /\ exch THEN {95} ELSE {})
                 \cup (IF symx /\ ctry THEN {92} ELSE {})
                 \cup (IF intext THEN {70} ELSE {})
                 \cup (IF exch THEN {30} ELSE {})
    IN  IF isinx THEN isinConf
        ELSE IF cusipx \/ cikx THEN idConf
        ELSE CHOOSE m \in fired : \A x \in fired : m >= x

\* the call's confidences follow the precedence table with the given
\* short-circuit confidences: every security the table gives more than 0 is a
\* candidate with that confidence, every other security is no candidate, and
\* every returned result has the table's confidence
FollowsPrecedence(isinConf, idConf) ==
    NormScored =>
        LET input == NormInput
            extracted == normLocals.extracted
            full == FullRanking
            table == [i \in 1..Len(equities) |->
                        PrecedenceTable(equities[i], extracted, input, isinConf, idConf)]
            res == normOut.results
        IN  /\ \A i \in 1..Len(equities) :
                  IF table[i] > 0
                  THEN \E k \in 1..Len(full) :
                          /\ full[k].equity = equities[i]
                          /\ full[k].confidence = table[i]
                  ELSE \A k \in 1..Len(full) : full[k].equity # equities[i]
            /\ \A k \in 1..Len(res) :
                  \E i \in 1..Len(equities) :
                      res[k].equity = equities[i] /\ res[k].confidence = table[i]

\* C9 as stated: 1.0 on exact ISIN; else 0.9 on exact CUSIP or CIK; else the
\* maximum of the symbol (0.9, 0.95, 0.92), substring (0.7) and exchange (0.3)
\* rules; 0, and not returned, when no rule fires.
C9_PrecedenceAsStated == FollowsPrecedence(100, 90)

\* C9, amended: thresholds.exact (default 1.0) on exact ISIN; else
\* thresholds.high (default 0.9) on exact CUSIP or CIK; else the maximum of the
\* symbol (0.9, 0.95, 0.92), substring (0.7) and exchange (0.3) rules; 0, and
\* not returned, when no rule fires.
C9_Precedence == FollowsPrecedence(thresholds.exact, thresholds.high)

\* C9 happens: one call in which a security is scored by the symbol rule with
\* the exchange bonus and another by the exchange keyword alone
C9_Witness ==
    /\ NormReturned /\ Len(normOut.results) >= 2
    /\ normOut.results[1].confidence = 95
    /\ normOut.results[2].confidence = 30

\* the best confidence of a ranking's candidates (0 when there is none)
BestConfidence(full) ==
    LET cs == {0} \cup {full[k].confidence : k \in 1..Len(full)}
    IN  CHOOSE m \in cs : \A x \in cs : m >= x

C11_ConfidenceInUnitInterval ==
    normIn # NoCall =>
        \A i \in 1..Len(normOut.results) :
            /\ normOut.results[i].confidence >= 0
            /\ normOut.results[i].confidence <= 100

\* C11 happens: an agent constructed with exact = 1.5 returns results
C11_Witness ==
    /\ NormReturned
    /\ thresholds.exact > 100
    /\ normOut.results # <<>>

\* with exact = 1.5 a text holding a listed ISIN gets no result list at all:
\* the construction of the NormalizationResult raises
C11_OutOfRangeRaises ==
    (NormScored /\ thresholds.exact > 100 /\ IsinMatches(normLocals.extracted) # {})
        => normOut.raised

\* the thresholds a NormalizerAgent may be constructed with by the
\* specification: exact and high are confidences
ValidNormalizerThresholds(th) ==
    /\ th.exact >= 0 /\ th.exact <= 100
    /\ th.high >= 0 /\ th.high <= 100

\* C22: a configuration error is fatal in the constructor and never at call
\* time: no normalize call of a constructed agent fails.
C22_NoCallFailsOnConfiguration ==
    normIn # NoCall => ~normOut.raised

\* What the code does: every thresholds argument yields an agent, and
\* normalize of an agent with exact or high outside [0, 1] raises as soon as
\* a candidate is scored with that value
C22_InvalidThresholdsAccepted ==
    /\ thresholds \in {MergeThresholds(o) : o \in ThresholdOverrides}
    /\ (normIn # NoCall /\ normOut.raised) => ~ValidNormalizerThresholds(thresholds)

\* an agent constructed with exact = 1.5 whose normalize call raised
C22_RaisedAtCallTime ==
    /\ normIn # NoCall /\ normOut.raised
    /\ thresholds.exact = 150

-----------------------------------------------------------------------------
(* Properties of the reject threshold on lower-ranked results              *)

\* the candidates of the call in directory order: every security that scores
\* above 0 on the stripped input
Candidates == IF NormScored THEN ScoredCandidates(equities, thresholds, NormInput) ELSE <<>>

\* the place in the directory-ordered candidates of the p-th returned result
CandidateOf(cands, p) ==
    CHOOSE i \in 1..Len(cands) : cands[i].equity = normOut.results[p].equity

\* candidate i ranks below a result of confidence c that is candidate j:
\* lower confidence, or the same confidence and later in the directory
RanksBelow(cands, i, c, j) ==
    \/ cands[i].confidence < c
    \/ (cands[i].confidence = c /\ j < i)

\* C29: reject gates only the best candidate: when the best confidence is at
\* or above reject the call returns the candidates with confidence > 0 in
\* non-increasing confidence order, ties in directory order, cut to top_k,
\* those below reject included.
C29_RejectGatesBestOnly ==
    (NormReturned /\ NormScored) =>
        LET cands == Candidates
            res == normOut.results
            n == IF normIn.top_k < Len(cands) THEN normIn.top_k ELSE Len(cands)
        IN  (cands # <<>> /\ BestConfidence(cands) >= thresholds.reject) =>
            /\ Len(res) = n
            /\ \A p \in 1..Len(res) :
                  /\ \E i \in 1..Len(cands) :
                        /\ cands[i].equity = res[p].equity
                        /\ cands[i].confidence = res[p].confidence
                        /\ cands[i].reasons = res[p].reasons
                  /\ res[p].confidence > 0
            /\ \A p, q \in 1..Len(res) :
                  p < q => RanksBelow(cands, CandidateOf(cands, q),
                                      res[p].confidence, CandidateOf(cands, p))
            /\ \A i \in 1..Len(cands) :
                  (\A p \in 1..Len(res) : CandidateOf(cands, p) # i) =>
                     \A p \in 1..Len(res) :
                        RanksBelow(cands, i, res[p].confidence, CandidateOf(cands, p))

\* a call that returns a lower-ranked result whose confidence is below reject
C29_Witness ==
    /\ NormReturned /\ NormScored
    /\ Len(normOut.results) > 1
    /\ normOut.results[1].confidence >= thresholds.reject
    /\ \E p \in 2..Len(normOut.results) :
          /\ normOut.results[p].confidence < thresholds.reject
          /\ normOut.results[p].confidence > 0

\* a tie returned in directory order
C29_WitnessTie ==
    /\ NormReturned /\ NormScored
    /\ Len(normOut.results) > 1
    /\ normOut.results[1].confidence = normOut.results[2].confidence
    /\ Len(Candidates) > normIn.top_k

====
